---------------------------- MODULE Spec2Model ----------------------------
(***************************************************************************)
(* Story lifecycle of the LifeBook voice API                               *)
(* (services/api/app/routers/voice.py): the voice_stories, moments and     *)
(* voice_participants tables and the endpoints that read and write them.   *)
(*                                                                         *)
(* Every handler is an operator from the tables and the request to a       *)
(* result record: the HTTP status code and the tables after the request.   *)
(* An action applies one handler to inputs drawn from small sets.          *)
(*                                                                         *)
(* Text: a Python str is a sequence of one-character strings; None and ""  *)
(* are both <<>> (every read in the code goes through `x or ""`, and every *)
(* write through `... or None`).  Row ids (uuid4 strings) of stories and   *)
(* moments are positive integers handed out by counters; an absent id      *)
(* (NULL) is NoId.                                                         *)
(***************************************************************************)
EXTENDS Integers, Sequences, FiniteSets, Bags, TLC

VARIABLES
    participants,   \* voice_participants: id -> row
    moments,        \* moments: id -> row (sessions and shared stories)
    stories,        \* voice_stories: id -> row
    nextMoment,     \* next fresh moment id
    nextStory,      \* next fresh story id
    shareReq,       \* share requests in flight (used by SpecConc only)
    listens,        \* shared_story_listens: the rows, in insertion order
    listenReq,      \* mark-listened requests in flight (SpecListen)
    enrollReq,      \* enroll requests in flight (SpecEnrollConc)
    session_turns_json, \* moments.session_turns_json: id -> turns, where not NULL
    createReq       \* create-participant requests in flight (SpecCreate)

vars == <<participants, moments, stories, nextMoment, nextStory, shareReq,
          listens, listenReq, enrollReq, session_turns_json, createReq>>

\* What the story endpoints never write.
others == <<shareReq, listens, listenReq, enrollReq, session_turns_json,
            createReq>>

-----------------------------------------------------------------------------
(* Bounds *)

\* Stories created in one behaviour.
MaxStories == 2
\* Share requests that may be in flight together (SpecConc).
MaxShareReqs == 2
\* Stories created in one behaviour of SpecListen.
MaxListenStories == 3
\* Mark-listened requests that reach their INSERT in one behaviour.
MaxListenReqs == 2
\* Enroll requests are made while the pending buffer is at most this long.
MaxPendingBytes == 6
\* Enroll requests in one behaviour of SpecEnrollConc.
MaxEnrollReqs == 3

-----------------------------------------------------------------------------
(* Values *)

NoId == 0
NoText == <<>>

SP == " "

\* str.strip(): leading and trailing whitespace removed.
RECURSIVE LStrip(_)
LStrip(s) == IF s # <<>> /\ Head(s) = SP THEN LStrip(Tail(s)) ELSE s

RECURSIVE RStrip(_)
RStrip(s) ==
    IF s # <<>> /\ s[Len(s)] = SP THEN RStrip(SubSeq(s, 1, Len(s) - 1)) ELSE s

Strip(s) == RStrip(LStrip(s))

\* s[:n]
Take(s, n) == SubSeq(s, 1, IF Len(s) < n THEN Len(s) ELSE n)

\* str.lower(): the upper-case letters and, at the same index, their
\* lower-case letters; every other character is left as it is.
Letters ==
    [ upper |->
        <<"A", "B", "C", "D", "E", "F", "G", "H", "I", "J", "K", "L", "M", "N",
          "O", "P", "Q", "R", "S", "T", "U", "V", "W", "X", "Y", "Z">>,
      lower |->
        <<"a", "b", "c", "d", "e", "f", "g", "h", "i", "j", "k", "l", "m", "n",
          "o", "p", "q", "r", "s", "t", "u", "v", "w", "x", "y", "z">> ]

LowerChar(c) ==
    IF \E i \in 1..26 : Letters.upper[i] = c
    THEN Letters.lower[CHOOSE i \in 1..26 : Letters.upper[i] = c]
    ELSE c

Lower(s) == [i \in 1..Len(s) |-> LowerChar(s[i])]

\* Participant ids are strings; the raw ids a request may carry.
PIds == {<<"p","1">>, <<"p","2">>}
P1 == <<"p","1">>
P2 == <<"p","2">>

\* The raw participant ids a request may carry: the two ids, one in upper
\* case and one with a leading blank.
ReqPIds == {P1, P2, <<"P","1">>, <<" ","p","1">>}
\* The ids given to the endpoints that compare the id in SQL, unchanged.
SqlPIds == {P1, P2}

\* story.summary = story_text[:500]; tags[:10]
SummaryCap == 500
TagCap == 10

VoiceStoryTitle == <<"V","o","i","c","e"," ","s","t","o","r","y">>
VoiceSessionTitle == <<"V","o","i","c","e"," ","s","e","s","s","i","o","n">>
SessionRecorded ==
    <<"S","e","s","s","i","o","n"," ","r","e","c","o","r","d","e","d",".">>
SessionRecordedNoDot == SubSeq(SessionRecorded, 1, Len(SessionRecorded) - 1)

\* [str(t).strip() for t in tags if str(t).strip()][:10]
CleanTags(tags) ==
    LET stripped == [i \in 1..Len(tags) |-> Strip(tags[i])]
        NonEmpty(t) == t # <<>>
    IN Take(SelectSeq(stripped, NonEmpty), TagCap)

\* Mutant: every code is taken as well-formed.
AnyPin(raw) == TRUE

\* RECALL_PIN_PATTERN = ^\d{4}$
Digits == {"0","1","2","3","4","5","6","7","8","9"}
RECALL_PIN_PATTERN(raw) == Len(raw) = 4 /\ \A i \in 1..4 : raw[i] \in Digits

\* Mutant: the digest is taken of the code alone.
HashOfCodeAlone(participant_id, code) == <<NoText, code>>

\* sha256(f"{participant_id}:{code}").hexdigest(): the digest is the pair it
\* was computed from (sha256 taken as injective).
_hash_recall_pin(participant_id, code) == <<participant_id, code>>

Code1 == <<"1","2","3","4">>
Code2 == <<"0","0","0","0">>
\* The codes a request may carry: two well-formed ones, one padded with a
\* blank, one too short.
ReqCodes == {Code1, Code2, <<" ">> \o Code1, <<"1","2","3">>}

-----------------------------------------------------------------------------
(* Rows *)

\* models.Moment as written by session_complete (source older_session).
SessionRow(pid, summary, tags, at) ==
    [ title |-> VoiceSessionTitle, summary |-> summary, source |-> "older_session",
      participant_id |-> pid, tags_json |-> tags, created_at |-> at,
      deleted_at |-> FALSE, shared_at |-> FALSE, session_audio |-> NoId ]

\* models.VoiceParticipant as written by create_participant: the label given,
\* no recall code, no pending enrollment audio (bytes), no profile, no
\* enrollment status.
ParticipantRow ==
    [ label |-> <<"S","a","m">>, created_at |-> 0,
      recall_passphrase |-> NoText, eagle_pending_pcm |-> <<>>,
      eagle_profile_data |-> <<>>, enrollment_status |-> "None" ]

Init ==
    /\ participants = [p \in PIds |-> ParticipantRow]
    /\ moments = (1 :> SessionRow(P1, <<"k","n","e","e">>, << <<"k">> >>, 1))
    /\ stories = <<>>
    /\ nextMoment = 2
    /\ nextStory = 1
    /\ shareReq = <<>>
    /\ listens = EmptyBag
    /\ listenReq = <<>>
    /\ enrollReq = <<>>
    /\ session_turns_json = <<>>
    /\ createReq = <<>>

\* The tables after a request that changed nothing.
Same(code) ==
    [ code |-> code, id |-> NoId, participants |-> participants,
      moments |-> moments, stories |-> stories,
      nextMoment |-> nextMoment, nextStory |-> nextStory ]

\* db.commit() of a handler's result.
Commit(r) ==
    /\ participants' = r.participants
    /\ moments' = r.moments
    /\ stories' = r.stories
    /\ nextMoment' = r.nextMoment
    /\ nextStory' = r.nextStory

\* db.add(story); db.commit(): a fresh id, created_at = now.
AddStory(row) ==
    [ Same(200) EXCEPT !.id = nextStory,
        !.stories = stories @@ (nextStory :> [row EXCEPT !.created_at = nextStory]),
        !.nextStory = nextStory + 1 ]

-----------------------------------------------------------------------------
(* Handlers *)

\* Mutant: the fallback title is forgotten.
ConfirmTitleNoDefault(generated) == generated

\* title = generate_story_title(...); if not title: title = "Voice story"
ConfirmTitle(generated) ==
    IF generated = NoText THEN VoiceStoryTitle ELSE generated

\* POST /voice/stories/confirm
confirm_story(participant_id_raw, story_text_raw, source_moment_id, ai_title) ==
    LET participant_id == Strip(participant_id_raw)
        story_text == Strip(story_text_raw)
        moment_ok ==
            /\ source_moment_id # NoId
            /\ source_moment_id \in DOMAIN moments
            /\ moments[source_moment_id].participant_id = participant_id
            /\ ~moments[source_moment_id].deleted_at
        tags == IF moment_ok THEN CleanTags(moments[source_moment_id].tags_json)
                ELSE <<>>
        generated == IF story_text # NoText THEN ai_title ELSE NoText
        title == ConfirmTitle(generated)
    IN IF participant_id = NoText \/ story_text = NoText THEN Same(400)
       ELSE IF participant_id \notin DOMAIN participants THEN Same(404)
       ELSE AddStory([ participant_id |-> participant_id,
                       source_moment_id |-> source_moment_id,
                       title |-> title,
                       summary |-> Take(story_text, SummaryCap),
                       tags_json |-> tags,
                       draft_text |-> story_text,
                       final_audio_asset_id |-> NoId,
                       status |-> "final",
                       shared_moment_id |-> NoId,
                       created_at |-> 0 ])

\* Mutant: the deleted_at filter is forgotten.
SessionQueryIgnoringDeleted(moment_id, participant_id) ==
    /\ moment_id \in DOMAIN moments
    /\ moments[moment_id].source = "older_session"
    /\ moments[moment_id].participant_id = participant_id

\* The query of create_voice_story: an undeleted session of the participant.
SessionQuery(moment_id, participant_id) ==
    /\ moment_id \in DOMAIN moments
    /\ moments[moment_id].source = "older_session"
    /\ moments[moment_id].participant_id = participant_id
    /\ ~moments[moment_id].deleted_at

\* POST /voice/stories
create_voice_story(moment_id, participant_id) ==
    LET found == SessionQuery(moment_id, participant_id)
        moment == moments[moment_id]
        title == IF Strip(moment.title) # NoText THEN Strip(moment.title)
                 ELSE VoiceStoryTitle
        stripped == Strip(moment.summary)
        summary == IF stripped # NoText
                      /\ Lower(stripped) \in {Lower(SessionRecorded), Lower(SessionRecordedNoDot)}
                   THEN NoText ELSE stripped
    IN IF ~found THEN Same(404)
       ELSE AddStory([ participant_id |-> participant_id,
                       source_moment_id |-> moment_id,
                       title |-> title,
                       summary |-> summary,
                       tags_json |-> CleanTags(moment.tags_json),
                       draft_text |-> summary,
                       final_audio_asset_id |-> NoId,
                       status |-> "draft",
                       shared_moment_id |-> NoId,
                       created_at |-> 0 ])

\* GET /voice/stories: the ids of the rows returned, in order.
RECURSIVE NewestFirst(_, _)
NewestFirst(table, ids) ==
    IF ids = {} THEN <<>>
    ELSE LET newest == CHOOSE x \in ids :
                           \A y \in ids : table[y].created_at <= table[x].created_at
         IN <<newest>> \o NewestFirst(table, ids \ {newest})

\* Mutant: the status filter only drops drafts.
ListQueryNotDraft(id, participant_id) ==
    /\ stories[id].participant_id = participant_id
    /\ stories[id].status # "draft"

\* The filter of list_voice_stories.
ListQuery(id, participant_id) ==
    /\ stories[id].participant_id = participant_id
    /\ stories[id].status = "final"

list_voice_stories(participant_id, limit) ==
    LET rows == { id \in DOMAIN stories : ListQuery(id, participant_id) }
    IN Take(NewestFirst(stories, rows), limit)

\* Mutant: the owner filter is forgotten.
PatchQueryAnyOwner(story_id, participant_id) ==
    /\ story_id \in DOMAIN stories
    /\ stories[story_id].status = "final"

\* The query of patch_voice_story: id, owner and status.
PatchQuery(story_id, participant_id) ==
    /\ story_id \in DOMAIN stories
    /\ stories[story_id].participant_id = participant_id
    /\ stories[story_id].status = "final"

\* PATCH /voice/stories/{story_id}; has_title is `b.title is not None`.
patch_voice_story(story_id, participant_id, has_title, title, has_summary, summary) ==
    LET found == PatchQuery(story_id, participant_id)
        story == stories[story_id]
        patched ==
            [ story EXCEPT
                !.title = IF has_title THEN Strip(title) ELSE @,
                !.summary = IF has_summary THEN Strip(summary) ELSE @ ]
    IN IF ~found THEN Same(404)
       ELSE [ Same(200) EXCEPT !.id = story_id,
                !.stories = [stories EXCEPT ![story_id] = patched] ]

\* The query of delete_voice_story: id, owner and status.
DeleteQuery(story_id, participant_id) ==
    /\ story_id \in DOMAIN stories
    /\ stories[story_id].participant_id = participant_id
    /\ stories[story_id].status = "final"

\* DELETE /voice/stories/{story_id}
delete_voice_story(story_id, participant_id) ==
    LET found == DeleteQuery(story_id, participant_id)
    IN IF ~found THEN Same(404)
       ELSE [ Same(200) EXCEPT !.id = story_id,
                !.stories = [id \in DOMAIN stories \ {story_id} |-> stories[id]] ]

\* The Moment (and its session_audio MomentAsset) that share_voice_story adds.
SharedMomentRow(story, ai_title, at) ==
    LET stripped == Strip(story.summary)
        summary == IF stripped # NoText THEN stripped
                   ELSE Take(Strip(story.draft_text), SummaryCap)
        content_for_title ==
            Strip(IF story.draft_text # NoText THEN story.draft_text
                  ELSE story.summary)
        own_title == Strip(story.title)
        title == IF own_title # NoText THEN own_title
                 ELSE IF content_for_title # NoText /\ ai_title # NoText
                      THEN ai_title
                 ELSE VoiceStoryTitle
    IN [ title |-> title, summary |-> summary, source |-> "voice_story",
         participant_id |-> story.participant_id, tags_json |-> story.tags_json,
         created_at |-> at, deleted_at |-> FALSE, shared_at |-> TRUE,
         session_audio |-> story.final_audio_asset_id ]

\* Mutant: the status filter is forgotten.
ShareQueryAnyStatus(story_id, participant_id) ==
    /\ story_id \in DOMAIN stories
    /\ stories[story_id].participant_id = participant_id

\* The query of share_voice_story: id, owner and status.
ShareQuery(story_id, participant_id) ==
    /\ story_id \in DOMAIN stories
    /\ stories[story_id].participant_id = participant_id
    /\ stories[story_id].status = "final"

\* Mutant: the status is not updated.
MarkSharedKeepStatus(story, moment_id) ==
    [story EXCEPT !.shared_moment_id = moment_id]

\* story.status = "shared"; story.shared_moment_id = moment.id
MarkShared(story, moment_id) ==
    [story EXCEPT !.status = "shared", !.shared_moment_id = moment_id]

\* POST /voice/stories/{story_id}/share
share_voice_story(story_id, participant_id, ai_title) ==
    IF ~ShareQuery(story_id, participant_id) THEN Same(404)
    ELSE [ Same(200) EXCEPT !.id = nextMoment,
             !.moments = moments @@
                 (nextMoment :> SharedMomentRow(stories[story_id], ai_title, nextMoment)),
             !.stories = [stories EXCEPT
                            ![story_id] = MarkShared(stories[story_id], nextMoment)],
             !.nextMoment = nextMoment + 1 ]

\* DELETE /voice/sessions/{moment_id}
delete_voice_session(moment_id, participant_id) ==
    LET found ==
            /\ moment_id \in DOMAIN moments
            /\ moments[moment_id].source = "older_session"
            /\ moments[moment_id].participant_id = participant_id
            /\ ~moments[moment_id].deleted_at
    IN IF ~found THEN Same(404)
       ELSE [ Same(200) EXCEPT !.id = moment_id,
                !.moments = [moments EXCEPT ![moment_id].deleted_at = TRUE] ]

\* PATCH /voice/participants/{participant_id}
set_recall_pin(participant_id, recall_pin) ==
    LET raw == Strip(recall_pin)
    IN IF participant_id \notin DOMAIN participants THEN Same(404)
       ELSE IF ~RECALL_PIN_PATTERN(raw) THEN Same(400)
       ELSE [ Same(200) EXCEPT
                !.participants = [participants EXCEPT
                    ![participant_id].recall_passphrase =
                        _hash_recall_pin(participant_id, raw)] ]

\* POST /voice/participants/{participant_id}/verify-recall.  The handler has
\* no db.add and no db.commit: its result carries the tables as they were.
\* A stored digest has 64 characters; the column is empty otherwise.
verify_recall_code(participant_id, code) ==
    LET stored == participants[participant_id].recall_passphrase
        raw == Strip(code)
    IN IF participant_id \notin DOMAIN participants
       THEN Same(404) @@ [ ok |-> FALSE ]
       ELSE IF stored = NoText THEN Same(400) @@ [ ok |-> FALSE ]
       ELSE IF ~RECALL_PIN_PATTERN(raw) THEN Same(400) @@ [ ok |-> FALSE ]
       ELSE Same(200) @@ [ ok |-> _hash_recall_pin(participant_id, raw) = stored ]

\* Mutant: the author check is forgotten.
AuthorAlwaysMatches(author_id, body_id) == TRUE

\* if author_id != body_id: raise 403
AuthorMatches(author_id, body_id) == author_id = body_id

\* _delete_shared_story_impl (POST /voice/stories/shared/{moment_id}/delete)
_delete_shared_story_impl(moment_id, participant_id, code) ==
    LET found ==
            /\ moment_id \in DOMAIN moments
            /\ moments[moment_id].source = "voice_story"
            /\ moments[moment_id].shared_at
            /\ ~moments[moment_id].deleted_at
        moment == moments[moment_id]
        linked == { id \in DOMAIN stories : stories[id].shared_moment_id = moment_id }
        author_pid ==
            IF Strip(moment.participant_id) # NoText THEN Strip(moment.participant_id)
            ELSE IF linked # {}
                 THEN Strip(stories[CHOOSE id \in linked : TRUE].participant_id)
            ELSE NoText
        author_id == Lower(author_pid)
        body_id == Lower(Strip(participant_id))
        matching == { p \in DOMAIN participants :
                        \/ Lower(Strip(p)) = body_id
                        \/ (author_pid # NoText /\ Lower(Strip(p)) = Lower(author_pid)) }
        participant == CHOOSE p \in matching : TRUE
        stored == Strip(participants[participant].recall_passphrase)
        raw == Strip(code)
    IN IF ~found THEN Same(404)
       ELSE IF body_id = NoText THEN Same(400)
       ELSE IF ~AuthorMatches(author_id, body_id) THEN Same(403)
       ELSE IF matching = {} THEN Same(400)
       ELSE IF stored = NoText THEN Same(400)
       ELSE IF ~RECALL_PIN_PATTERN(raw) THEN Same(400)
       ELSE IF _hash_recall_pin(participant, raw) # stored THEN Same(401)
       ELSE [ Same(200) EXCEPT !.id = moment_id,
                !.moments = [moments EXCEPT ![moment_id].deleted_at = TRUE] ]

-----------------------------------------------------------------------------
(* Requests *)

StoryIds == 1..MaxStories
MomentIds == 1..(1 + MaxStories)
StoryTexts == {<<" ">>, <<"a">>, <<" ","a"," ">>}
AiTitles == {NoText, <<"T">>}
\* A patched title (stored stripped) and a patched summary that clears it.
PatchTitle == <<"T"," ">>
PatchSummary == <<" ">>

ConfirmStory ==
    /\ nextStory <= MaxStories
    /\ \E pid \in ReqPIds, text \in StoryTexts, mid \in {NoId, 1}, ai \in AiTitles :
          Commit(confirm_story(pid, text, mid, ai))
    /\ UNCHANGED others

CreateVoiceStory ==
    /\ nextStory <= MaxStories
    /\ \E mid \in MomentIds, pid \in SqlPIds :
          Commit(create_voice_story(mid, pid))
    /\ UNCHANGED others

PatchVoiceStory ==
    /\ \E sid \in StoryIds, pid \in SqlPIds, ht \in BOOLEAN, hs \in BOOLEAN :
          Commit(patch_voice_story(sid, pid, ht, PatchTitle, hs, PatchSummary))
    /\ UNCHANGED others

DeleteVoiceStory ==
    /\ \E sid \in StoryIds, pid \in SqlPIds :
          Commit(delete_voice_story(sid, pid))
    /\ UNCHANGED others

ShareVoiceStory ==
    /\ \E sid \in StoryIds, pid \in SqlPIds, ai \in AiTitles :
          Commit(share_voice_story(sid, pid, ai))
    /\ UNCHANGED others

DeleteVoiceSession ==
    /\ \E mid \in MomentIds, pid \in SqlPIds :
          Commit(delete_voice_session(mid, pid))
    /\ UNCHANGED others

Next ==
    \/ ConfirmStory
    \/ CreateVoiceStory
    \/ PatchVoiceStory
    \/ DeleteVoiceStory
    \/ ShareVoiceStory
    \/ DeleteVoiceSession

Spec == Init /\ [][Next]_vars

-----------------------------------------------------------------------------
(* Recall codes and shared-story deletion: the same tables, with the story   *)
(* endpoints given one text and no generated title.  patch_voice_story is    *)
(* left out: it writes only title and summary, which nothing here reads.     *)

PlainConfirmStory ==
    /\ nextStory <= MaxStories
    /\ \E pid \in SqlPIds : Commit(confirm_story(pid, <<"a">>, NoId, NoText))
    /\ UNCHANGED others

SetRecallPin ==
    /\ \E pid \in ReqPIds, pin \in ReqCodes : Commit(set_recall_pin(pid, pin))
    /\ UNCHANGED others

DeleteSharedStory ==
    /\ \E mid \in MomentIds, pid \in ReqPIds, code \in ReqCodes :
          Commit(_delete_shared_story_impl(mid, pid, code))
    /\ UNCHANGED others

NextAuth ==
    \/ PlainConfirmStory
    \/ CreateVoiceStory
    \/ ShareVoiceStory
    \/ DeleteVoiceStory
    \/ DeleteVoiceSession
    \/ SetRecallPin
    \/ DeleteSharedStory

SpecAuth == Init /\ [][NextAuth]_vars

-----------------------------------------------------------------------------
(* Interleaved share requests.  Each request runs in its own database        *)
(* session (get_db) and transaction; the engine is created with the          *)
(* database's default isolation (READ COMMITTED).  A request first runs the  *)
(* query of share_voice_story, and later adds the Moment, updates the story  *)
(* row it loaded and commits; other requests may run in between.             *)

\* Lines 1464-1475: the query; a request that finds no final story ends 404.
ShareBegin ==
    /\ Len(shareReq) < MaxShareReqs
    /\ \E sid \in StoryIds, pid \in SqlPIds :
          shareReq' =
              IF ShareQuery(sid, pid)
              THEN Append(shareReq, [ pc |-> "loaded", story_id |-> sid,
                                      story |-> stories[sid] ])
              ELSE shareReq
    /\ UNCHANGED <<participants, moments, stories, nextMoment, nextStory>>
    /\ UNCHANGED <<listens, listenReq, enrollReq, session_turns_json, createReq>>

\* Lines 1476-1508: the Moment is built from the story object as loaded; the
\* UPDATE writes status and shared_moment_id to the row with that id.  If the
\* row is gone the UPDATE matches nothing and the transaction is rolled back.
ShareCommit ==
    \E i \in 1..Len(shareReq) :
        LET req == shareReq[i]
        IN /\ req.pc = "loaded"
           /\ IF req.story_id \in DOMAIN stories
              THEN /\ moments' = moments @@
                        (nextMoment :> SharedMomentRow(req.story, NoText, nextMoment))
                   /\ stories' = [stories EXCEPT ![req.story_id] =
                                     MarkShared(stories[req.story_id], nextMoment)]
                   /\ nextMoment' = nextMoment + 1
                   /\ shareReq' = [shareReq EXCEPT ![i].pc = "committed"]
              ELSE /\ shareReq' = [shareReq EXCEPT ![i].pc = "rolled back"]
                   /\ UNCHANGED <<moments, stories, nextMoment>>
           /\ UNCHANGED <<participants, nextStory, listens, listenReq, enrollReq,
                        session_turns_json, createReq>>

NextConc ==
    \/ PlainConfirmStory
    \/ DeleteVoiceStory
    \/ ShareBegin
    \/ ShareCommit

SpecConc == Init /\ [][NextConc]_vars

-----------------------------------------------------------------------------
(* Listening to shared stories.  shared_story_listens is a bag of rows        *)
(* (participant_id, moment_id); its primary key is the pair (models.py        *)
(* 137-138, migration 007), which the database enforces on INSERT.  A         *)
(* mark-listened request runs its three queries, and later inserts and        *)
(* commits; other requests may run in between.                                *)

ListenRow(participant_id, moment_id) ==
    [ participant_id |-> participant_id, moment_id |-> moment_id ]

\* Mutant: the table has no primary key.
NoPrimaryKey(row) == TRUE

\* PRIMARY KEY (participant_id, moment_id): the INSERT of a row is accepted
\* only if no row with that key is in the table.
PrimaryKeyFree(row) == ~BagIn(row, listens)

\* Lines 1216-1244 of mark_shared_story_listened: the moment, the participant
\* and the existing mark.
MarkQuery(moment_id, participant_id) ==
    IF ~(moment_id \in DOMAIN moments /\ moments[moment_id].source = "voice_story")
    THEN "404"
    ELSE IF participant_id \notin DOMAIN participants THEN "404"
    ELSE IF BagIn(ListenRow(participant_id, moment_id), listens) THEN "listened"
    ELSE "adding"

\* Mutant: the query takes the newest `limit` moments even for new_only.
SharedWindowPlain(participant_id, new_only, limit) == limit

\* .limit(limit * 2 if new_only and participant_id else limit)
SharedWindow(participant_id, new_only, limit) ==
    IF new_only /\ participant_id # NoText THEN limit * 2 ELSE limit

\* GET /voice/stories/shared: the moment ids returned, in order, each with its
\* `listened` field (has_listened FALSE stands for listened = None).  The
\* backfill of lines 1011-1031 applies to moments without participant_id;
\* share_voice_story always writes one.
list_shared_stories(participant_id, new_only, limit) ==
    LET shared == { m \in DOMAIN moments :
                      /\ moments[m].source = "voice_story"
                      /\ moments[m].shared_at
                      /\ ~moments[m].deleted_at }
        window == Take(NewestFirst(moments, shared),
                       SharedWindow(participant_id, new_only, limit))
        listened_set ==
            IF participant_id # NoText
            THEN { window[i] : i \in { j \in 1..Len(window) :
                       BagIn(ListenRow(participant_id, window[j]), listens) } }
            ELSE {}
        Unheard(m) == m \notin listened_set
        kept == IF new_only /\ participant_id # NoText
                THEN SelectSeq(window, Unheard) ELSE window
        out == [ i \in 1..Len(kept) |->
                   [ id |-> kept[i],
                     has_listened |-> participant_id # NoText,
                     listened |-> kept[i] \in listened_set ] ]
    IN Take(out, limit)

ListenMomentIds == 1..(1 + MaxListenStories)

\* confirm_story for the stories that are then shared and listened to; the
\* author confirms a story once the previous one is shared.
ListenConfirmStory ==
    /\ nextStory <= MaxListenStories
    /\ \A sid \in DOMAIN stories : stories[sid].status = "shared"
    /\ Commit(confirm_story(P1, <<"a">>, NoId, NoText))
    /\ UNCHANGED others

ListenShareStory ==
    /\ \E sid \in 1..MaxListenStories :
          Commit(share_voice_story(sid, P1, NoText))
    /\ UNCHANGED others

\* Lines 1216-1245: a request that ends 404 or finds the mark writes nothing.
MarkBegin ==
    /\ Len(listenReq) < MaxListenReqs
    /\ \E mid \in ListenMomentIds, pid \in ReqPIds :
          listenReq' =
              IF MarkQuery(mid, pid) = "adding"
              THEN Append(listenReq, [ pc |-> "adding", participant_id |-> pid,
                                       moment_id |-> mid ])
              ELSE listenReq
    /\ UNCHANGED <<participants, moments, stories, nextMoment, nextStory>>
    /\ UNCHANGED <<shareReq, listens, enrollReq, session_turns_json, createReq>>

\* Lines 1246-1252: db.add(...); db.commit().  An INSERT the primary key
\* refuses raises IntegrityError and the transaction is rolled back.
MarkCommit ==
    /\ \E i \in 1..Len(listenReq) :
          LET req == listenReq[i]
              row == ListenRow(req.participant_id, req.moment_id)
          IN /\ req.pc = "adding"
             /\ IF PrimaryKeyFree(row)
                THEN /\ listens' = listens (+) SetToBag({row})
                     /\ listenReq' = [listenReq EXCEPT ![i].pc = "listened"]
                ELSE /\ listens' = listens
                     /\ listenReq' = [listenReq EXCEPT ![i].pc = "rolled back"]
    /\ UNCHANGED <<participants, moments, stories, nextMoment, nextStory>>
    /\ UNCHANGED <<shareReq, enrollReq, session_turns_json, createReq>>

\* The author sets a recall code and deletes a shared story.
ListenSetRecallPin ==
    /\ Commit(set_recall_pin(P1, Code1))
    /\ UNCHANGED others

ListenDeleteSharedStory ==
    /\ \E mid \in ListenMomentIds :
          Commit(_delete_shared_story_impl(mid, P1, Code1))
    /\ UNCHANGED others

NextListen ==
    \/ ListenConfirmStory
    \/ ListenShareStory
    \/ MarkBegin
    \/ MarkCommit
    \/ ListenSetRecallPin
    \/ ListenDeleteSharedStory

SpecListen == Init /\ [][NextListen]_vars

-----------------------------------------------------------------------------
(* Voice enrollment (services/speaker_recognition_eagle.py).  PCM is a        *)
(* sequence of int16 samples; eagle_pending_pcm is the bytes of               *)
(* struct.pack("<h", ...), two per sample.  The 44-byte WAV header of a       *)
(* request body is kept as the outcome of the tests made on it (riff); data   *)
(* is the bytes after the header.  The profiler is the pveagle backend: each  *)
(* chunk it accepts adds a fixed step to the percentage, and the exported     *)
(* profile is the chunks it was fed.                                          *)

\* struct.pack("<h", sample): two's complement, low byte first.
PackSample(sample) ==
    LET u == (sample + 65536) % 65536 IN <<u % 256, u \div 256>>

RECURSIVE Pack(_)
Pack(pcm) == IF pcm = <<>> THEN <<>> ELSE PackSample(Head(pcm)) \o Pack(Tail(pcm))

\* struct.unpack_from("<h", data, i)
UnpackSample(lo, hi) ==
    LET u == lo + 256 * hi IN IF u >= 32768 THEN u - 65536 ELSE u

\* [unpack_from("<h", b, i) for i in range(0, len(b), 2) if i + 2 <= len(b)]
Unpack(bytes) ==
    [ k \in 1..(Len(bytes) \div 2) |-> UnpackSample(bytes[2 * k - 1], bytes[2 * k]) ]

\* wav_to_pcm: None (here <<>>, both fail `if not pcm`) or the samples.
wav_to_pcm(wav) ==
    IF Len(wav.data) < 2 THEN <<>>
    ELSE IF ~wav.riff THEN <<>>
    ELSE Unpack(wav.data)

\* profiler.min_enroll_samples, and the percentage one chunk adds.
min_enroll_samples == 2
EnrollStep == 50

\* percentage, feedback = profiler.enroll(chunk)
ProfilerEnroll(percentage, chunk) ==
    IF percentage + EnrollStep > 100 THEN 100 ELSE percentage + EnrollStep

\* Mutant: the loop runs to the end of the buffer.
LoopIgnoresPercentage(idx, n, percentage) == idx < n

\* while idx < len(pcm_from_pending) and percentage < 100.0
LoopContinues(idx, n, percentage) == idx < n /\ percentage < 100

\* Lines 84-91: the chunks fed to the profiler and the percentage reached.
RECURSIVE ProfilerLoop(_, _, _, _)
ProfilerLoop(pcm, idx, percentage, fed) ==
    IF ~LoopContinues(idx, Len(pcm), percentage)
    THEN [ percentage |-> percentage, fed |-> fed ]
    ELSE LET last == IF idx + min_enroll_samples < Len(pcm)
                     THEN idx + min_enroll_samples ELSE Len(pcm)
             chunk == SubSeq(pcm, idx + 1, last)
         IN IF Len(chunk) < min_enroll_samples
            THEN [ percentage |-> percentage, fed |-> fed ]
            ELSE ProfilerLoop(pcm, idx + min_enroll_samples,
                              ProfilerEnroll(percentage, chunk), Append(fed, chunk))

\* Mutant: the new clip replaces the pending samples.
ReplacePending(pending, pcm_bytes) == pcm_bytes

\* new_pending = pending + pcm_bytes
NewPending(pending, pcm_bytes) == pending \o pcm_bytes

\* Mutant: the estimate is not floored.
RemainingUnfloored(n) == 15 * 16000 - n

\* remaining = max(0, 15 - len(pcm_from_pending) / 16000), in samples (x 16000).
RemainingSamples(n) == IF 15 * 16000 - n < 0 THEN 0 ELSE 15 * 16000 - n

\* The answer of an enroll call that leaves the participant as loaded.
EnrollRefused(participant, message) ==
    [ ok |-> FALSE, message |-> message, has_remaining |-> FALSE, remaining |-> 0,
      participant |-> participant, percentage |-> 0, fed |-> <<>>, buffer |-> <<>> ]

\* enroll_participant(participant, wav_bytes, db): the answer, the participant
\* row as flushed, and what the profiler was given.  key is the access key,
\* installed whether `import pveagle` succeeds, raises whether the backend
\* raises in create_profiler or enroll.
enroll_participant(participant, wav, key, installed, raises) ==
    LET pcm == wav_to_pcm(wav)
        pending == participant.eagle_pending_pcm
        new_pending == NewPending(pending, Pack(pcm))
        buffered == [participant EXCEPT !.eagle_pending_pcm = new_pending]
        pcm_from_pending == Unpack(new_pending)
        run == ProfilerLoop(pcm_from_pending, 0, 0, <<>>)
    IN IF Strip(key) = NoText
       THEN EnrollRefused(participant, "Voice ID not configured")
       ELSE IF pcm = <<>>
       THEN EnrollRefused(participant, "Invalid or unsupported WAV")
       ELSE IF ~installed
       THEN EnrollRefused(participant, "Speaker recognition not available")
       ELSE IF pcm_from_pending = <<>>
       THEN [ ok |-> TRUE, message |-> "Enrolling (add more speech)",
              has_remaining |-> TRUE, remaining |-> 10 * 16000,
              participant |-> buffered, percentage |-> 0, fed |-> <<>>,
              buffer |-> pcm_from_pending ]
       ELSE IF raises
       THEN [ EnrollRefused(buffered, "Enrollment failed") EXCEPT
                !.buffer = pcm_from_pending ]
       ELSE IF run.percentage >= 100
       THEN [ ok |-> TRUE, message |-> "Enrolled",
              has_remaining |-> FALSE, remaining |-> 0,
              participant |-> [ buffered EXCEPT
                                  !.eagle_profile_data = run.fed,
                                  !.eagle_pending_pcm = <<>>,
                                  !.enrollment_status = "Enrolled" ],
              percentage |-> run.percentage, fed |-> run.fed,
              buffer |-> pcm_from_pending ]
       ELSE [ ok |-> TRUE,
              message |-> "Enrolling (add more speech for best recognition)",
              has_remaining |-> TRUE,
              remaining |-> RemainingSamples(Len(pcm_from_pending)),
              participant |-> [ buffered EXCEPT !.enrollment_status = "Enrolling" ],
              percentage |-> run.percentage, fed |-> run.fed,
              buffer |-> pcm_from_pending ]

\* speaker_recognition_available() with VOICE_ID_BACKEND = eagle (the default):
\* bool(settings.picovoice_access_key.strip())
speaker_recognition_available(key) == Strip(key) # NoText

\* The answer of the enroll endpoint when it writes nothing.
EnrollAnswer(code, message) ==
    [ code |-> code, ok |-> FALSE, message |-> message,
      participants |-> participants,
      result |-> EnrollRefused(ParticipantRow, message) ]

\* Mutant: every upload is sent to the decoder.
NoSignatureCheck(audio) == FALSE

\* body[:4] == b"RIFF" and body[8:12] == b"WAVE": the container signature of
\* the upload.  The declared content type is read by to_wav_16k_mono only.
HasWavSignature(audio) == audio.riff

\* POST /voice/participants/{participant_id}/enroll, eagle backend.  audio is
\* the upload: too_short is len(body) < 2000, riff the RIFF/WAVE signature,
\* converts whether to_wav_16k_mono returns a WAV, data the PCM bytes of the
\* (converted) WAV.
enroll_participant_voice(participant_id, audio, key, installed, raises) ==
    LET result == enroll_participant(participants[participant_id],
                                     [ riff |-> TRUE, data |-> audio.data ],
                                     key, installed, raises)
    IN IF ~speaker_recognition_available(key)
       THEN EnrollAnswer(200, "Voice recognition not configured")
       ELSE IF participant_id \notin DOMAIN participants
       THEN EnrollAnswer(404, "Participant not found")
       ELSE IF audio.too_short
       THEN EnrollAnswer(400, "Audio too short; need more speech for enrollment")
       ELSE IF ~HasWavSignature(audio) /\ ~audio.converts
       THEN EnrollAnswer(400, "Send WAV 16 kHz mono")
       ELSE [ code |-> 200, ok |-> result.ok, message |-> result.message,
              participants |-> [participants EXCEPT
                                  ![participant_id] = result.participant],
              result |-> result ]

\* The WAV that reaches enroll_participant: the upload, or its conversion.
Wav(audio) == [ riff |-> TRUE, data |-> audio.data ]

\* The clips: one, two and three samples.
Clip1 == <<1>>
Clip2 == <<1, -2>>
Clip3 == <<-2, 1, 1>>
Audio(too_short, riff, converts, data) ==
    [ too_short |-> too_short, riff |-> riff, converts |-> converts, data |-> data ]
\* The uploads: the three clips as WAV (the third with an odd trailing byte),
\* a webm that converts to the first clip, one that converts to a WAV without
\* samples, one that does not convert, and a body that is too short.
GoodAudio ==
    { Audio(FALSE, TRUE, FALSE, Pack(Clip1)),
      Audio(FALSE, TRUE, FALSE, Pack(Clip2)),
      Audio(FALSE, TRUE, FALSE, Pack(Clip3) \o <<7>>),
      Audio(FALSE, FALSE, TRUE, Pack(Clip1)) }
BadAudio ==
    { Audio(FALSE, FALSE, TRUE, <<>>),
      Audio(FALSE, FALSE, FALSE, <<>>),
      Audio(TRUE, TRUE, FALSE, Pack(Clip1)) }
EnrollAudio == GoodAudio \cup BadAudio
AccessKeys == {NoText, <<"k">>, <<" ">>}
EnrollPIds == {P1, P2, <<"P","1">>}
\* The first participant uploads every clip, the others the two-sample clip.
AudioOf(pid) ==
    IF pid = P1 THEN EnrollAudio ELSE {Audio(FALSE, TRUE, FALSE, Pack(Clip2))}

EnrollParticipantVoice ==
    /\ \E pid \in EnrollPIds, key \in AccessKeys,
          installed \in BOOLEAN, raises \in BOOLEAN :
        \E audio \in AudioOf(pid) :
          /\ pid \in DOMAIN participants =>
                 Len(participants[pid].eagle_pending_pcm) <= MaxPendingBytes
          /\ participants' =
                 enroll_participant_voice(pid, audio, key, installed, raises).participants
    /\ UNCHANGED <<moments, stories, nextMoment, nextStory>>
    /\ UNCHANGED others

-----------------------------------------------------------------------------
(* Voice identification.  Frame scores are the recognizer's (the backend's)  *)
(* answers, in hundredths; a mean is kept as the fraction <<sum, count>>.    *)
(* voice_identify writes nothing: it is an operator on the tables, applied   *)
(* in every state the enroll requests reach.                                 *)

IDENTIFY_SCORE_THRESHOLD == 50
\* if not pcm or len(pcm) < 1000
MinIdentifySamples == 1000

RECURSIVE SumScores(_)
SumScores(lst) == IF lst = <<>> THEN 0 ELSE Head(lst) + SumScores(Tail(lst))

\* sum(lst) / len(lst) if lst else 0.0
MeanScore(lst) == IF lst = <<>> THEN <<0, 1>> ELSE <<SumScores(lst), Len(lst)>>

MeanLess(a, b) == a[1] * b[2] < b[1] * a[2]

\* max(range(len(mean_scores)), key=lambda i: mean_scores[i]): the first index
\* of a greatest mean.
BestIdx(mean_scores) ==
    CHOOSE i \in 1..Len(mean_scores) :
        /\ \A j \in 1..Len(mean_scores) : ~MeanLess(mean_scores[i], mean_scores[j])
        /\ \A j \in 1..(i - 1) : MeanLess(mean_scores[j], mean_scores[i])

\* Mutant: the best candidate is returned whatever its mean.
ThresholdIgnored(mean) == TRUE

\* mean_scores[best_idx] >= IDENTIFY_SCORE_THRESHOLD
ThresholdMet(mean) == mean[1] >= IDENTIFY_SCORE_THRESHOLD * mean[2]

\* len(range(0, len(pcm) - frame_len, frame_len)): the frames scored.
FrameCount(pcm_len, frame_len) ==
    IF pcm_len - frame_len <= 0 THEN 0
    ELSE ((pcm_len - frame_len - 1) \div frame_len) + 1

\* pveagle.EagleProfile.from_bytes(blob) succeeds on what export() wrote.
FromBytes(candidate) == candidate.blob # <<>>

\* identify_single_speaker: the participant id matched, or NoText for None.
\* pcm_len is len(wav_to_pcm(wav_bytes)), 0 when that is None; scores[j] are
\* the scores the recognizer gives profile j, frame by frame.
identify_single_speaker(participants_with_profiles, pcm_len, key, installed, frame_len, scores) ==
    LET profiles == SelectSeq(participants_with_profiles, FromBytes)
        frames == FrameCount(pcm_len, frame_len)
        scores_per_speaker ==
            [ j \in 1..Len(profiles) |-> SubSeq(scores[j], 1, frames) ]
        mean_scores ==
            [ j \in 1..Len(profiles) |-> MeanScore(scores_per_speaker[j]) ]
        best_idx == BestIdx(mean_scores)
    IN IF participants_with_profiles = <<>> THEN NoText
       ELSE IF Strip(key) = NoText THEN NoText
       ELSE IF pcm_len < MinIdentifySamples THEN NoText
       ELSE IF ~installed THEN NoText
       ELSE IF profiles = <<>> THEN NoText
       ELSE IF ThresholdMet(mean_scores[best_idx])
            THEN participants_with_profiles[best_idx].id
       ELSE NoText

IdentifyOut(code, recognized, participant_id) ==
    [ code |-> code, recognized |-> recognized, participant_id |-> participant_id ]

\* models.VoiceParticipant.eagle_profile_data.isnot(None)
HasProfile(p) == participants[p].eagle_profile_data # <<>>

\* Lines 410-417: the rows with a profile, in the order the database returns
\* them.
IdentifyRows(order) == SelectSeq(order, HasProfile)

\* POST /voice/identify, eagle backend.  audio: too_short is len(body) < 1000,
\* riff and converts as for enroll, pcm_len the samples of the (converted)
\* WAV.  order is the order in which the database returns the rows.
voice_identify(audio, key, installed, order, frame_len, scores) ==
    LET rows == IdentifyRows(order)
        participants_with_profiles ==
            [ i \in 1..Len(rows) |->
                [ id |-> rows[i], blob |-> participants[rows[i]].eagle_profile_data ] ]
        matched_id ==
            identify_single_speaker(participants_with_profiles, audio.pcm_len,
                                    key, installed, frame_len, scores)
    IN IF ~speaker_recognition_available(key) THEN IdentifyOut(200, FALSE, NoText)
       ELSE IF audio.too_short THEN IdentifyOut(400, FALSE, NoText)
       ELSE IF ~HasWavSignature(audio) /\ ~audio.converts
       THEN IdentifyOut(400, FALSE, NoText)
       ELSE IF rows = <<>> THEN IdentifyOut(200, FALSE, NoText)
       ELSE IF matched_id = NoText THEN IdentifyOut(200, FALSE, NoText)
       ELSE IdentifyOut(200, TRUE, matched_id)

\* The recognizer's answers and the uploads of identify requests.
Scores == {0, 40, 60}
FrameLengths == {512, 1024}
ScoreLists == [1..2 -> Scores]
ScoreTables == [1..2 -> ScoreLists]
RowOrders == {<<P1, P2>>, <<P2, P1>>}
IdentifyAudio ==
    { [ too_short |-> FALSE, riff |-> TRUE, converts |-> FALSE, pcm_len |-> n ] :
        n \in {999, 1000, 1025} }
    \cup { [ too_short |-> TRUE, riff |-> TRUE, converts |-> FALSE, pcm_len |-> 400 ],
           [ too_short |-> FALSE, riff |-> FALSE, converts |-> FALSE, pcm_len |-> 0 ] }

NextEnroll == EnrollParticipantVoice

SpecEnroll == Init /\ [][NextEnroll]_vars

-----------------------------------------------------------------------------
(* Interleaved enroll requests.  Each request loads the participant row in   *)
(* its own session (lines 481-488) and later runs enroll_participant on the  *)
(* row as loaded and commits (511-512): the UPDATE writes the columns the    *)
(* request assigned.  Nothing locks the row between the two steps.           *)

ConcAudio(pid) ==
    IF pid = P1
    THEN { Audio(FALSE, TRUE, FALSE, Pack(Clip1)),
           Audio(FALSE, TRUE, FALSE, Pack(Clip2)),
           Audio(FALSE, TRUE, FALSE, Pack(Clip3) \o <<7>>) }
    ELSE { Audio(FALSE, TRUE, FALSE, Pack(Clip2)) }

EnrollBegin ==
    /\ Len(enrollReq) < MaxEnrollReqs
    /\ \E pid \in SqlPIds :
        \E audio \in ConcAudio(pid) :
          enrollReq' = Append(enrollReq,
              [ pc |-> "loaded", participant_id |-> pid,
                participant |-> participants[pid], audio |-> audio,
                message |-> "" ])
    /\ UNCHANGED <<participants, moments, stories, nextMoment, nextStory>>
    /\ UNCHANGED <<shareReq, listens, listenReq, session_turns_json, createReq>>

EnrollCommit ==
    /\ \E i \in 1..Len(enrollReq) :
          LET req == enrollReq[i]
              r == enroll_participant(req.participant, Wav(req.audio),
                                      <<"k">>, TRUE, FALSE)
              row == participants[req.participant_id]
              written ==
                  [ row EXCEPT
                      !.eagle_pending_pcm = r.participant.eagle_pending_pcm,
                      !.enrollment_status = r.participant.enrollment_status,
                      !.eagle_profile_data =
                          IF r.percentage >= 100
                          THEN r.participant.eagle_profile_data ELSE @ ]
          IN /\ req.pc = "loaded"
             /\ participants' = [participants EXCEPT ![req.participant_id] = written]
             /\ enrollReq' = [enrollReq EXCEPT ![i].pc = "committed",
                                               ![i].message = r.message]
    /\ UNCHANGED <<moments, stories, nextMoment, nextStory>>
    /\ UNCHANGED <<shareReq, listens, listenReq, session_turns_json, createReq>>

NextEnrollConc ==
    \/ EnrollBegin
    \/ EnrollCommit

SpecEnrollConc == Init /\ [][NextEnrollConc]_vars

-----------------------------------------------------------------------------
(* Properties *)

Limits == {1, 2, 50}
Shared(sid) == stories[sid].status = "shared"
Final(sid) == stories[sid].status = "final"
Draft(sid) == stories[sid].status = "draft"
SharedRecords == { m \in DOMAIN moments : moments[m].source = "voice_story" }
\* A request left the tables as they were.
NoChange(r) ==
    /\ r.participants = participants
    /\ r.moments = moments
    /\ r.stories = stories
    /\ r.nextMoment = nextMoment
    /\ r.nextStory = nextStory

\* C1: a share of a final story by its author creates exactly one shared
\* record and marks the story shared; every share of a story that is already
\* shared fails and changes nothing; every shared record is the record of
\* exactly one story, so no story is published twice.
C1_RepeatedShareRejected ==
    /\ \A sid \in DOMAIN stories, pid \in ReqPIds, ai \in AiTitles :
          LET r == share_voice_story(sid, pid, ai)
          IN /\ (Final(sid) /\ pid = stories[sid].participant_id) =>
                    /\ r.code = 200
                    /\ r.id \notin DOMAIN moments
                    /\ DOMAIN r.moments = DOMAIN moments \cup {r.id}
                    /\ r.moments[r.id].source = "voice_story"
                    /\ r.stories[sid].status = "shared"
                    /\ r.stories[sid].shared_moment_id = r.id
             /\ Shared(sid) => r.code # 200 /\ NoChange(r)
    /\ \A m \in SharedRecords :
          Cardinality({ sid \in DOMAIN stories : stories[sid].shared_moment_id = m }) = 1

\* C1 witness: a story has been shared, and a second share of it by its
\* author is refused.
C1_Witness ==
    \E sid \in DOMAIN stories :
        /\ Shared(sid)
        /\ share_voice_story(sid, stories[sid].participant_id, NoText).code = 404

\* C2: with interleaved share requests, every shared record is the one its
\* story refers to: at most one shared record exists per story.  (No request
\* of SpecConc removes a shared story.)
C2_ShareAtomic ==
    \A m \in SharedRecords :
        \E sid \in DOMAIN stories :
            Shared(sid) /\ stories[sid].shared_moment_id = m

\* C3: a story becomes shared only in a step that finds it final, no story is
\* created shared, and a share request on a draft changes nothing.
C3_SharedOnlyFromFinal ==
    /\ [](\A sid \in DOMAIN stories, pid \in ReqPIds, ai \in AiTitles :
            Draft(sid) => NoChange(share_voice_story(sid, pid, ai)))
    /\ [][\A sid \in DOMAIN stories' :
            (stories'[sid].status = "shared"
                /\ (sid \notin DOMAIN stories \/ ~Shared(sid)))
            => (sid \in DOMAIN stories /\ Final(sid))]_vars

\* C3 witness: one story has been shared while another is still a draft.
C3_Witness ==
    \E s1 \in DOMAIN stories, s2 \in DOMAIN stories : Shared(s1) /\ Draft(s2)

C5_AsClaimed ==
    \A pid \in DOMAIN participants, text \in StoryTexts, mid \in {NoId, 1},
       ai \in AiTitles :
        text # NoText =>
            LET r == confirm_story(pid, text, mid, ai)
            IN /\ r.code = 200
               /\ r.id \notin DOMAIN stories
               /\ DOMAIN r.stories = DOMAIN stories \cup {r.id}
               /\ r.stories[r.id].status = "final"
               /\ r.stories[r.id].draft_text = text

\* C5 amended: for a participant id that is known once trimmed and a text that
\* is non-empty once trimmed, confirm adds exactly one story: final, of that
\* participant, carrying the trimmed text and a non-empty title (the generated
\* one, or "Voice story" when none was generated); every existing story and
\* every moment is left as it was.
C5_ConfirmAddsFinal ==
    \A pid \in ReqPIds, text \in StoryTexts, mid \in {NoId, 1}, ai \in AiTitles :
        (Strip(pid) \in DOMAIN participants /\ Strip(text) # NoText) =>
            LET r == confirm_story(pid, text, mid, ai)
            IN /\ r.code = 200
               /\ r.id \notin DOMAIN stories
               /\ DOMAIN r.stories = DOMAIN stories \cup {r.id}
               /\ r.stories[r.id].status = "final"
               /\ r.stories[r.id].participant_id = Strip(pid)
               /\ r.stories[r.id].draft_text = Strip(text)
               /\ r.stories[r.id].title # NoText
               /\ r.stories[r.id].title = IF ai # NoText THEN ai ELSE VoiceStoryTitle
               /\ \A old \in DOMAIN stories : r.stories[old] = stories[old]
               /\ r.moments = moments

\* C5 witness: a story was confirmed from session 1 while a draft made from
\* session 1 exists, and the draft is still a draft.
C5_Witness ==
    \E s1 \in DOMAIN stories, s2 \in DOMAIN stories :
        /\ Draft(s1) /\ stories[s1].source_moment_id = 1
        /\ Final(s2) /\ stories[s2].source_moment_id = 1
        /\ stories[s1].created_at < stories[s2].created_at

\* C6: create_voice_story succeeds only for a session that exists, is not
\* deleted and belongs to the caller, and then adds one draft made from it;
\* for a session of another participant or a deleted session it answers 404;
\* whenever it fails no story is added.
C6_DraftOnlyFromOwnLiveSession ==
    \A mid \in MomentIds, pid \in ReqPIds :
        LET r == create_voice_story(mid, pid)
            session == mid \in DOMAIN moments /\ moments[mid].source = "older_session"
        IN /\ r.code = 200 =>
                  /\ session
                  /\ ~moments[mid].deleted_at
                  /\ moments[mid].participant_id = pid
                  /\ r.id \notin DOMAIN stories
                  /\ DOMAIN r.stories = DOMAIN stories \cup {r.id}
                  /\ r.stories[r.id].status = "draft"
                  /\ r.stories[r.id].source_moment_id = mid
                  /\ r.stories[r.id].participant_id = pid
           /\ (session /\ (moments[mid].participant_id # pid \/ moments[mid].deleted_at))
                  => r.code = 404
           /\ r.code # 200 => NoChange(r)

\* C6 witness: a draft was made from session 1, which has since been deleted,
\* so a new request for it is refused.
C6_Witness ==
    /\ moments[1].deleted_at
    /\ \E sid \in DOMAIN stories : Draft(sid) /\ stories[sid].source_moment_id = 1
    /\ create_voice_story(1, moments[1].participant_id).code = 404

\* C7: list_voice_stories(p, limit) is the final stories of p, newest first,
\* cut to the limit: only final stories of p, none twice, min(limit, number of
\* final stories of p) of them, in decreasing creation time, and none that is
\* left out is newer than one that is listed.
C7_ListIsFinalNewestFirst ==
    \A pid \in ReqPIds, limit \in Limits :
        LET out == list_voice_stories(pid, limit)
            finals == { sid \in DOMAIN stories :
                          Final(sid) /\ stories[sid].participant_id = pid }
            listed == { out[i] : i \in 1..Len(out) }
            n == Cardinality(finals)
        IN /\ listed \subseteq finals
           /\ Cardinality(listed) = Len(out)
           /\ Len(out) = IF n < limit THEN n ELSE limit
           /\ \A i \in 1..(Len(out) - 1) :
                 stories[out[i]].created_at > stories[out[i + 1]].created_at
           /\ \A sid \in finals \ listed, l \in listed :
                 stories[sid].created_at < stories[l].created_at

\* C7 witness: a participant has a shared story and a final story, and the
\* list holds the final one alone.
C7_Witness ==
    \E s1 \in DOMAIN stories, s2 \in DOMAIN stories :
        /\ Shared(s1) /\ Final(s2)
        /\ stories[s1].participant_id = stories[s2].participant_id
        /\ list_voice_stories(stories[s1].participant_id, 50) = <<s2>>

\* C8: patch and delete succeed exactly when the story is final and the caller
\* is its author; then patch writes the given title and summary to that story
\* and delete removes it, leaving every other story alone; otherwise they fail
\* and change nothing.
C8_PatchDeleteOnlyFinalByAuthor ==
    \A sid \in StoryIds, pid \in ReqPIds :
        LET mine == /\ sid \in DOMAIN stories
                    /\ Final(sid)
                    /\ stories[sid].participant_id = pid
            d == delete_voice_story(sid, pid)
        IN /\ \A ht \in BOOLEAN, hs \in BOOLEAN :
                 LET r == patch_voice_story(sid, pid, ht, PatchTitle, hs, PatchSummary)
                 IN IF mine
                    THEN /\ r.code = 200
                         /\ DOMAIN r.stories = DOMAIN stories
                         /\ ht => r.stories[sid].title = Strip(PatchTitle)
                         /\ hs => r.stories[sid].summary = Strip(PatchSummary)
                         /\ r.stories[sid].status = "final"
                         /\ \A o \in DOMAIN stories \ {sid} : r.stories[o] = stories[o]
                    ELSE r.code # 200 /\ NoChange(r)
           /\ IF mine
              THEN /\ d.code = 200
                   /\ DOMAIN d.stories = DOMAIN stories \ {sid}
                   /\ \A o \in DOMAIN d.stories : d.stories[o] = stories[o]
              ELSE d.code # 200 /\ NoChange(d)

\* C8 witness: a final story has been patched (its summary cleared, its title
\* set) while a story of another status or author exists that refuses both.
C8_Witness ==
    \E s1 \in DOMAIN stories, s2 \in DOMAIN stories :
        /\ Final(s1) /\ stories[s1].summary = NoText
        /\ stories[s1].title = Strip(PatchTitle)
        /\ ~Final(s2)
        /\ delete_voice_story(s2, stories[s2].participant_id).code = 404
        /\ patch_voice_story(s2, stories[s2].participant_id, TRUE, PatchTitle,
                             FALSE, PatchSummary).code = 404

\* The author's stored recall hash is the hash of this code, trimmed.
CodeMatches(author, code) ==
    /\ RECALL_PIN_PATTERN(Strip(code))
    /\ participants[author].recall_passphrase = _hash_recall_pin(author, Strip(code))

\* C9: a story is deleted only while final, and no delete (of a private story
\* or of a shared one) succeeds unless a code was supplied whose salted hash
\* equals the author's stored hash: a successful delete needs at least that
\* some code matches the author's stored hash.
C9_DeleteNeedsRecallCode ==
    /\ \A sid \in DOMAIN stories, pid \in ReqPIds :
          delete_voice_story(sid, pid).code = 200 =>
              /\ Final(sid)
              /\ \E code \in ReqCodes : CodeMatches(stories[sid].participant_id, code)
    /\ \A mid \in SharedRecords, pid \in ReqPIds, code \in ReqCodes :
          _delete_shared_story_impl(mid, pid, code).code = 200 =>
              CodeMatches(moments[mid].participant_id, code)

\* C10 as claimed: a shared story is deleted only when the participant_id
\* sent equals the author's id and the code sent is 4 digits whose hash is the
\* author's stored hash.
C10_AsClaimed ==
    \A mid \in SharedRecords, pid \in ReqPIds, code \in ReqCodes :
        _delete_shared_story_impl(mid, pid, code).code = 200 =>
            /\ pid = moments[mid].participant_id
            /\ RECALL_PIN_PATTERN(code)
            /\ participants[moments[mid].participant_id].recall_passphrase
                   = _hash_recall_pin(moments[mid].participant_id, code)

\* C10 amended: a shared story is deleted only when the participant_id sent
\* equals the author's id once both are trimmed and lower-cased, and the code
\* sent, trimmed, is 4 digits whose hash is the author's stored hash; then the
\* deleted marker is set.  For a live shared story, another participant_id is
\* answered 403 and a well-formed wrong code 401, neither 404; on every
\* failing path nothing changes, so the deleted marker stays unset.
C10_SharedDeleteByAuthorWithCode ==
    \A mid \in SharedRecords, pid \in ReqPIds, code \in ReqCodes :
        LET r == _delete_shared_story_impl(mid, pid, code)
            author == moments[mid].participant_id
            same_id == Lower(Strip(pid)) = Lower(Strip(author))
            live == ~moments[mid].deleted_at
        IN /\ r.code = 200 =>
                  /\ live /\ same_id /\ CodeMatches(author, code)
                  /\ r.moments[mid].deleted_at
           /\ (live /\ ~same_id) => r.code = 403
           /\ (live /\ same_id /\ RECALL_PIN_PATTERN(Strip(code))
                  /\ participants[author].recall_passphrase # NoText
                  /\ ~CodeMatches(author, code)) => r.code = 401
           /\ r.code # 200 => NoChange(r)
           /\ (live /\ same_id /\ CodeMatches(author, code)) => r.code = 200

\* C10 witness: one shared story has been deleted by its author, and another
\* one, whose author has a recall code, is still there and refuses the other
\* participant (403) and a wrong code (401).
C10_Witness ==
    \E m1 \in SharedRecords, m2 \in SharedRecords :
        /\ moments[m1].deleted_at
        /\ ~moments[m2].deleted_at
        /\ participants[moments[m2].participant_id].recall_passphrase # NoText
        /\ \E pid \in SqlPIds, code \in ReqCodes :
              _delete_shared_story_impl(m2, pid, code).code = 403
        /\ \E code \in ReqCodes :
              _delete_shared_story_impl(m2, moments[m2].participant_id, code).code = 401

\* The live shared stories, and the marks of one pair.
LiveShared ==
    { m \in SharedRecords : moments[m].shared_at /\ ~moments[m].deleted_at }
Marks(participant_id, moment_id) ==
    CopiesIn(ListenRow(participant_id, moment_id), listens)

\* C11: however mark-listened requests for a pair are ordered or interleaved,
\* once one of them has finished exactly one mark exists for the pair; no pair
\* ever has more than one mark, a repeated request finds the mark and writes
\* nothing, and a pair is marked only by a request made for that pair.
C11_MarkListenedIdempotent ==
    /\ \A row \in BagToSet(listens) :
          /\ CopiesIn(row, listens) = 1
          /\ MarkQuery(row.moment_id, row.participant_id) = "listened"
          /\ \E i \in 1..Len(listenReq) :
                /\ listenReq[i].pc = "listened"
                /\ ListenRow(listenReq[i].participant_id, listenReq[i].moment_id) = row
    /\ \A i \in 1..Len(listenReq) :
          listenReq[i].pc # "adding" =>
              Marks(listenReq[i].participant_id, listenReq[i].moment_id) = 1

\* C11 witness: two requests for one pair were interleaved (both passed the
\* query before either inserted); one inserted, the other was refused.
C11_Witness ==
    \E i \in 1..Len(listenReq), j \in 1..Len(listenReq) :
        /\ listenReq[i].pc = "listened"
        /\ listenReq[j].pc = "rolled back"
        /\ listenReq[i].participant_id = listenReq[j].participant_id
        /\ listenReq[i].moment_id = listenReq[j].moment_id

ListenLimits == {1, 2}

\* C12: list_shared_stories(p, new_only, limit) is the live shared stories
\* without a mark of p, newest first, cut to the limit, each with listened
\* equal to the presence of a mark of p.
C12_UnheardIsSharedMinusListened ==
    \A pid \in SqlPIds, limit \in ListenLimits :
        LET out == list_shared_stories(pid, TRUE, limit)
            unheard == { m \in LiveShared : Marks(pid, m) = 0 }
        IN /\ [ i \in 1..Len(out) |-> out[i].id ]
                  = Take(NewestFirst(moments, unheard), limit)
           /\ \A i \in 1..Len(out) :
                 out[i].listened = (Marks(pid, out[i].id) > 0)

-----------------------------------------------------------------------------
(* Enrollment and identification properties *)

Pending(p) == participants[p].eagle_pending_pcm
Profile(p) == participants[p].eagle_profile_data
Enrolled(p) == participants[p].enrollment_status = "Enrolled"
\* An enroll request with audio that is accepted, a configured and installed
\* backend: new audio reaches the profiler.
Reaches(p, audio) == enroll_participant_voice(p, audio, <<"k">>, TRUE, FALSE)

\* C13: no participant has at once a non-empty pending enrollment buffer and a
\* non-empty profile artifact.
C13_PendingXorProfile ==
    \A p \in DOMAIN participants : ~(Pending(p) # <<>> /\ Profile(p) # <<>>)

\* Two successive enroll calls of participant p that reach the profiler.
FirstCall(p, a1) == enroll_participant(participants[p], Wav(a1), <<"k">>, TRUE, FALSE)
SecondCall(p, a1, a2) ==
    enroll_participant(FirstCall(p, a1).participant, Wav(a2), <<"k">>, TRUE, FALSE)
\* The percentage the profiler reaches on the buffer pending before a call.
Before(p) == ProfilerLoop(Unpack(Pending(p)), 0, 0, <<>>).percentage
\* In the call that reaches 100% the buffer is cleared, the profile stored and
\* the status Enrolled.
Completes(r) ==
    r.percentage >= 100 =>
        /\ r.participant.eagle_pending_pcm = <<>>
        /\ r.participant.eagle_profile_data = r.fed
        /\ r.fed # <<>>
        /\ r.participant.enrollment_status = "Enrolled"
        /\ r.message = "Enrolled"

ChunkAt(buffer, k) ==
    SubSeq(buffer, (k - 1) * min_enroll_samples + 1, k * min_enroll_samples)
\* Chunks needed for 100%.
ChunksFor100 == 100 \div EnrollStep
Min(a, b) == IF a < b THEN a ELSE b

\* C15: an enroll call that reaches the profiler gives it the previously
\* pending samples followed by the new clip's samples; the profiler is fed the
\* consecutive chunks of exactly min_enroll_samples from the start of that
\* buffer, as many as fit in it but no more than reach 100%; while incomplete
\* the whole buffer, leftover samples included, is what stays pending.
C15_AppendAndFeedChunks ==
    \A p \in DOMAIN participants, a \in GoodAudio :
        LET r == FirstCall(p, a)
            whole == Len(r.buffer) \div min_enroll_samples
        IN /\ r.buffer = Unpack(Pending(p)) \o wav_to_pcm(Wav(a))
           /\ wav_to_pcm(Wav(a)) # <<>>
           /\ Len(r.fed) = Min(whole, ChunksFor100)
           /\ \A k \in 1..Len(r.fed) : r.fed[k] = ChunkAt(r.buffer, k)
           /\ r.percentage = Min(100, EnrollStep * Len(r.fed))
           /\ r.percentage < 100 =>
                 /\ Unpack(r.participant.eagle_pending_pcm) = r.buffer
                 /\ r.participant.eagle_profile_data = Profile(p)

\* C15 witness: three samples are pending (a one-sample clip, then the
\* two-sample clip: one chunk fed, one sample left over), and a call with the
\* three-sample clip makes six: two chunks are fed and reach 100%, the third
\* is not fed.
C15_Witness ==
    /\ Unpack(Pending(P1)) = Clip1 \o Clip2
    /\ Profile(P1) = <<>>
    /\ \E a \in GoodAudio :
          /\ Len(FirstCall(P1, a).buffer) = 3 * min_enroll_samples
          /\ Len(FirstCall(P1, a).fed) = 2

\* C16: an enroll request that fails (an error status, or ok = false) leaves
\* every participant's pending buffer, profile artifact and enrollment status
\* as they were: malformed or too short audio, a backend that is not
\* configured or not installed, and a profiler that raises.
C16_FailedEnrollChangesNothing ==
    \A pid \in EnrollPIds, audio \in EnrollAudio, key \in AccessKeys,
       installed \in BOOLEAN, raises \in BOOLEAN :
        LET r == enroll_participant_voice(pid, audio, key, installed, raises)
        IN (r.code # 200 \/ ~r.ok) => r.participants = participants

\* The committed requests of a participant.
Committed(p) ==
    { i \in 1..Len(enrollReq) :
        enrollReq[i].participant_id = p /\ enrollReq[i].pc = "committed" }
Incomplete(i) ==
    enrollReq[i].message = "Enrolling (add more speech for best recognition)"
ClipOf(i) == wav_to_pcm(Wav(enrollReq[i].audio))

\* C17: when the enroll requests committed for a participant have all left
\* enrollment incomplete, the pending buffer holds the samples of any two of
\* them, one clip after the other with nothing lost; a participant no request
\* has committed for is as created.
C17_NoLostEnrollUpdate ==
    /\ \A p \in DOMAIN participants :
          (\A k \in Committed(p) : Incomplete(k)) =>
              \A i \in Committed(p), j \in Committed(p) :
                  i # j => Len(Unpack(Pending(p))) >= Len(ClipOf(i)) + Len(ClipOf(j))
    /\ \A p \in DOMAIN participants :
          Committed(p) = {} => participants[p] = ParticipantRow

\* C18: after an enroll call with new audio on an Enrolled participant the
\* old profile artifact is not used for identification: while audio of a
\* participant is pending, no identify request returns that participant.
C18_ReenrollDiscardsOldProfile ==
    \A p \in DOMAIN participants :
        Pending(p) # <<>> =>
            \A audio \in IdentifyAudio, order \in RowOrders,
               frame_len \in FrameLengths, scores \in ScoreTables :
                voice_identify(audio, <<"k">>, TRUE, order, frame_len, scores)
                    .participant_id # p

\* The match of an identify request that reaches the recognizer.
Matched(order, audio, frame_len, scores) ==
    LET rows == IdentifyRows(order)
    IN identify_single_speaker(
           [ i \in 1..Len(rows) |-> [ id |-> rows[i], blob |-> Profile(rows[i]) ] ],
           audio.pcm_len, <<"k">>, TRUE, frame_len, scores)
\* The sum of the scores of candidate j over the frames scored.
ScoreSum(scores, j, frames) == SumScores(SubSeq(scores[j], 1, frames))

C20_NotConfiguredIsDistinct ==
    \A audio \in IdentifyAudio, order \in RowOrders,
       frame_len \in FrameLengths, scores \in ScoreTables :
        LET ran == voice_identify(audio, <<"k">>, TRUE, order, frame_len, scores)
            off == voice_identify(audio, NoText, TRUE, order, frame_len, scores)
        IN (IdentifyRows(order) # <<>> /\ audio.pcm_len >= MinIdentifySamples
               /\ ran.code = 200 /\ ~ran.recognized) => off # ran

-----------------------------------------------------------------------------
(* Frames, candidates and determinism of identification.                     *)

\* len(pcm) of identify samples of at least 1000 samples: between, at and
\* past multiples of both frame lengths.
FrameSamples == {1000, 1024, 1025, 1535, 1536, 2048, 2049}

\* C21: an identify request that reaches the recognizer (some row has a
\* profile) scores, for a sample of n samples and frame length F, exactly
\* floor(n / F) frames, including when n is an exact multiple of F.
C21_ScoresEveryCompleteFrame ==
    \A order \in RowOrders :
        IdentifyRows(order) # <<>> =>
            \A n \in FrameSamples, frame_len \in FrameLengths :
                FrameCount(n, frame_len) = n \div frame_len

\* The recognizer's answers for the rows in the given order, when table[1]
\* are its frame scores for the profile of P1 and table[2] for that of P2.
ScoresInOrder(table, order) ==
    LET rows == IdentifyRows(order)
    IN [ j \in 1..Len(rows) |-> IF rows[j] = P1 THEN table[1] ELSE table[2] ]

\* C22: two identify requests with the same sample, the same recognizer
\* answers per profile and the same set of enrolled profiles return the same
\* result, and the result is one of the candidates or no match.
C22_IdentifyDeterministic ==
    \A audio \in IdentifyAudio, frame_len \in FrameLengths, table \in ScoreTables :
        \A first \in RowOrders, second \in RowOrders :
            LET a == voice_identify(audio, <<"k">>, TRUE, first, frame_len,
                                    ScoresInOrder(table, first))
                b == voice_identify(audio, <<"k">>, TRUE, second, frame_len,
                                    ScoresInOrder(table, second))
            IN /\ a = b
               /\ a.participant_id \in
                      {NoText} \cup { p \in DOMAIN participants : HasProfile(p) }
               /\ a.recognized <=> a.participant_id # NoText

\* C23: the candidates of an identify request are participants whose
\* enrollment state is Enrolled, and so is the participant it returns.
C23_CandidatesAreEnrolled ==
    \A order \in RowOrders :
        /\ \A i \in 1..Len(IdentifyRows(order)) : Enrolled(IdentifyRows(order)[i])
        /\ \A audio \in IdentifyAudio, frame_len \in FrameLengths, scores \in ScoreTables :
              LET r == voice_identify(audio, <<"k">>, TRUE, order, frame_len, scores)
              IN r.recognized => Enrolled(r.participant_id)

-----------------------------------------------------------------------------
(* Recall codes and refused requests.                                        *)

\* A request that sets the recall code of p to c and succeeds.
SetsCode(p, c) ==
    /\ set_recall_pin(p, c).code = 200
    /\ participants' = set_recall_pin(p, c).participants

\* C24 as claimed: after set_recall_pin(p, c) with a 4-digit code c,
\* verify_recall_code(p, c2) answers ok = true exactly when c2 = c.
C24_AsClaimed ==
    [][ \A p \in ReqPIds, c \in ReqCodes :
            (RECALL_PIN_PATTERN(c) /\ SetsCode(p, c)) =>
                \A c2 \in ReqCodes : (verify_recall_code(p, c2).ok)' <=> (c2 = c) ]_vars

\* C24: after set_recall_pin(p, c) succeeded, verify_recall_code(p, c2)
\* answers ok = true exactly when c2 without its surrounding blanks is c
\* without its surrounding blanks, whatever code was stored before; a
\* malformed c2 is refused with 400; and no other participant has the same
\* stored value, whatever its code.
C24_RecallCodeRoundTrip ==
    [][ \A p \in ReqPIds, c \in ReqCodes :
            SetsCode(p, c) =>
                /\ \A c2 \in ReqCodes :
                      /\ (verify_recall_code(p, c2).ok)' <=> (Strip(c2) = Strip(c))
                      /\ (verify_recall_code(p, c2).code)' =
                             IF RECALL_PIN_PATTERN(Strip(c2)) THEN 200 ELSE 400
                /\ \A q \in DOMAIN participants :
                      q # p => participants'[q].recall_passphrase
                                   # participants'[p].recall_passphrase ]_vars

\* C24 witness: both participants have set the same code; each one's code
\* verifies for that participant, padded or not, and another code does not.
C24_Witness ==
    /\ \A p \in {P1, P2} :
          /\ set_recall_pin(p, Code1).participants = participants
          /\ verify_recall_code(p, Code1).ok
          /\ verify_recall_code(p, <<" ">> \o Code1).ok
          /\ ~verify_recall_code(p, Code2).ok
    /\ participants[P1].recall_passphrase # participants[P2].recall_passphrase

\* Exactly four digits.
FourDigits(c) == Len(c) = 4 /\ \A i \in 1..4 : c[i] \in Digits
\* The caller is not the owner of the story, or there is no such story.
NotOwn(sid, pid) == ~(sid \in DOMAIN stories /\ stories[sid].participant_id = pid)
\* The row is a mark of a known participant on a shared record.
KnownMark(pid, mid) ==
    /\ pid \in DOMAIN participants
    /\ mid \in DOMAIN moments /\ moments[mid].source = "voice_story"

\* Every refused request of the recall-code and story handlers leaves the
\* tables as they were.
RefusedChangesNothing ==
    /\ \A pid \in ReqPIds, pin \in ReqCodes \cup {NoText} :
          LET r == set_recall_pin(pid, pin)
          IN /\ r.code # 200 => NoChange(r)
             /\ pid \notin DOMAIN participants => r.code = 404
             /\ ~FourDigits(Strip(pin)) => r.code \in {400, 404} /\ NoChange(r)
    /\ \A pid \in ReqPIds, code \in ReqCodes \cup {NoText} :
          NoChange(verify_recall_code(pid, code))
    /\ \A sid \in 1..(MaxListenStories + 1), pid \in ReqPIds :
          NotOwn(sid, pid) =>
              /\ patch_voice_story(sid, pid, TRUE, PatchTitle, TRUE, PatchSummary).code = 404
              /\ NoChange(patch_voice_story(sid, pid, TRUE, PatchTitle, TRUE, PatchSummary))
              /\ delete_voice_story(sid, pid).code = 404
              /\ NoChange(delete_voice_story(sid, pid))
              /\ \A ai_title \in AiTitles :
                    /\ share_voice_story(sid, pid, ai_title).code = 404
                    /\ NoChange(share_voice_story(sid, pid, ai_title))
    /\ \A mid \in ListenMomentIds, pid \in ReqPIds, code \in ReqCodes :
          LET r == _delete_shared_story_impl(mid, pid, code)
          IN r.code # 200 => NoChange(r)
    /\ \A i \in 1..Len(listenReq) :
          listenReq[i].pc = "adding" =>
              KnownMark(listenReq[i].participant_id, listenReq[i].moment_id)
    /\ \A row \in BagToSet(listens) : KnownMark(row.participant_id, row.moment_id)

\* A step that changes the marks adds one mark of a known participant on a
\* shared record.
MarksOnlyAdded ==
    listens' # listens =>
        \E mid \in ListenMomentIds, pid \in ReqPIds :
            /\ KnownMark(pid, mid)
            /\ listens' = listens (+) SetToBag({ListenRow(pid, mid)})

\* C25: every request that ends in 400, 401, 403 or 404 leaves all persisted
\* state unchanged: set_recall_pin with a code that is not 4 digits or an
\* unknown participant, verify_recall_code with any outcome, patch, delete
\* and share of a story the caller does not own, and mark-listened for an
\* unknown story or participant.
C25_RefusedChangesNothing == []RefusedChangesNothing /\ [][MarksOnlyAdded]_vars

\* C25 witness: the author has a recall code, a final story and a mark; a
\* malformed code, an unknown participant, a caller who is not the owner, a
\* wrong code and a mark on an unknown story are each refused.
C25_Witness ==
    /\ participants[P1].recall_passphrase # NoText
    /\ \E sid \in DOMAIN stories :
          /\ Final(sid) /\ stories[sid].participant_id = P1
          /\ patch_voice_story(sid, P2, TRUE, PatchTitle, TRUE, PatchSummary).code = 404
          /\ delete_voice_story(sid, P2).code = 404
          /\ share_voice_story(sid, P2, NoText).code = 404
    /\ \E row \in BagToSet(listens) : row.participant_id = P1
    /\ set_recall_pin(P1, <<"1","2","3">>).code = 400
    /\ set_recall_pin(<<"P","1">>, Code2).code = 404
    /\ verify_recall_code(P1, Code2).code = 200 /\ ~verify_recall_code(P1, Code2).ok
    /\ \E mid \in DOMAIN moments : _delete_shared_story_impl(mid, P1, Code2).code = 401
    /\ MarkQuery(nextMoment, P1) = "404"
    /\ MarkQuery(1, P1) = "404"

-----------------------------------------------------------------------------
(* Sessions: session_complete stores the turns of a conversation; rolling    *)
(* context and targeted recall read them back.  A turn is the dict           *)
(* {"role": ..., "content": ...} that session_complete writes, both strings. *)
(* The transcripts table that session_complete also fills is read by none    *)
(* of the operations below and is left out.                                  *)

\* Sessions completed in one behaviour of SpecRecall.
MaxSessions == 2

MAX_CONTEXT_TURNS == 20

\* The roles of turns: the participant's ("user", and "human" for labels),
\* the agent's, and one that is neither.
Role ==
    [ user |-> <<"u","s","e","r">>,
      assistant |-> <<"a","s","s","i","s","t","a","n","t">>,
      human |-> <<"h","u","m","a","n">>,
      system |-> <<"s","y","s","t","e","m">> ]

Turn(role, content) == [ role |-> role, content |-> content ]

\* generate_recall_label(...): what the label service answers, (None, [])
\* when it fails or no key is configured.
NoLabel == [ summary |-> NoText, tags |-> <<>> ]

\* POST /sessions/complete with participantId, turns and summary (no
\* keywords, sessionMeta, audio or transcript text); ai is the answer of
\* generate_recall_label.
session_complete(participantId, turns, summary, ai) ==
    LET body_summary == IF Strip(summary) # NoText THEN Strip(summary)
                        ELSE SessionRecorded
        turns_json == turns
        ParticipantPart(t) ==
            /\ Lower(Strip(t.role)) \in {Role.user, Role.human}
            /\ Strip(t.content) # NoText
        participant_text == SelectSeq(turns, ParticipantPart)
        labelled == /\ turns # <<>>
                    /\ participant_text # <<>>
                    /\ (ai.summary # NoText \/ ai.tags # <<>>)
        row == SessionRow(participantId,
                          IF labelled /\ ai.summary # NoText
                          THEN ai.summary ELSE body_summary,
                          IF labelled THEN ai.tags ELSE <<>>,
                          nextMoment)
    IN [ code |-> 200, id |-> nextMoment, participants |-> participants,
         moments |-> moments @@ (nextMoment :> row), stories |-> stories,
         nextMoment |-> nextMoment + 1, nextStory |-> nextStory,
         session_turns_json |->
             IF turns # <<>>
             THEN session_turns_json @@ (nextMoment :> turns_json)
             ELSE session_turns_json ]

\* .order_by(models.Moment.created_at.asc()).all()
RECURSIVE OldestFirst(_, _)
OldestFirst(table, ids) ==
    IF ids = {} THEN <<>>
    ELSE LET oldest == CHOOSE x \in ids :
                           \A y \in ids : table[x].created_at <= table[y].created_at
         IN <<oldest>> \o OldestFirst(table, ids \ {oldest})

\* The query of get_voice_context and of _get_voice_context_turns: the
\* participant's session moments whose session_turns_json is not NULL.
ContextQuery(participant_id) ==
    OldestFirst(moments,
                { m \in DOMAIN moments :
                    /\ moments[m].source = "older_session"
                    /\ moments[m].participant_id = participant_id
                    /\ m \in DOMAIN session_turns_json })

\* turns.append(...) for the turns of each moment in order: the lists joined.
RECURSIVE Concat(_)
Concat(lists) == IF lists = <<>> THEN <<>> ELSE Head(lists) \o Concat(Tail(lists))

\* Mutant: the first n turns are kept.
FirstTurns(turns, n) == Take(turns, n)

\* turns[-n:]
LastTurns(turns, n) ==
    IF Len(turns) > n THEN SubSeq(turns, Len(turns) - n + 1, Len(turns)) ELSE turns

\* What the JSONB column can hold in the place of a string: null and the
\* number 0, kept apart from every text (a text is a sequence of characters).
Json == [ null |-> <<"null">>, zero |-> <<"number 0">> ]

\* str(v) of Python: "None" for None, "0" for 0, a string is itself.
PyStr(v) ==
    IF v = Json.null THEN <<"N","o","n","e">>
    ELSE IF v = Json.zero THEN <<"0">>
    ELSE v

\* The truth value of v in Python: None, 0 and "" are false.
Truthy(v) == v \notin {NoText, Json.null, Json.zero}

\* The loop of get_voice_context over the entries of one moment: both keys
\* present, role = str(...) in ("user", "assistant"), content = str(...) not
\* empty; the turn holds the two strings.
VoiceContextTurns(raw) ==
    LET Keep(t) == /\ "role" \in DOMAIN t /\ "content" \in DOMAIN t
                   /\ PyStr(t.role) \in {Role.user, Role.assistant}
                   /\ PyStr(t.content) # NoText
        kept == SelectSeq(raw, Keep)
    IN [ i \in 1..Len(kept) |-> Turn(PyStr(kept[i].role), PyStr(kept[i].content)) ]

\* The loop of _get_voice_context_turns over the entries of one moment:
\* t.get("role") in ("user", "assistant") and t.get("content"); the turn
\* holds t["role"] and str(t["content"]).
RealtimeContextTurns(raw) ==
    LET Keep(t) == /\ "role" \in DOMAIN t /\ t.role \in {Role.user, Role.assistant}
                   /\ "content" \in DOMAIN t /\ Truthy(t.content)
        kept == SelectSeq(raw, Keep)
    IN [ i \in 1..Len(kept) |-> Turn(kept[i].role, PyStr(kept[i].content)) ]

\* GET /voice/context: the kept turns of the moments in order, the last
\* MAX_CONTEXT_TURNS of them.
get_voice_context(participant_id) ==
    LET ms == ContextQuery(participant_id)
        kept == [ i \in 1..Len(ms) |-> VoiceContextTurns(session_turns_json[ms[i]]) ]
    IN LastTurns(Concat(kept), MAX_CONTEXT_TURNS)

\* realtime.py: the kept turns of the moments in order, the last max_turns.
_get_voice_context_turns(participant_id, max_turns) ==
    LET ms == ContextQuery(participant_id)
        kept == [ i \in 1..Len(ms) |-> RealtimeContextTurns(session_turns_json[ms[i]]) ]
    IN LastTurns(Concat(kept), max_turns)

\* Mutant: the owner filter is forgotten.
RecallQueryAnyOwner(moment_id, participant_id) ==
    /\ moment_id \in DOMAIN moments
    /\ moments[moment_id].source = "older_session"
    /\ moment_id \in DOMAIN session_turns_json

\* The query of _get_moment_for_recall: id, source, owner, turns not NULL.
RecallQuery(moment_id, participant_id) ==
    /\ moment_id \in DOMAIN moments
    /\ moments[moment_id].source = "older_session"
    /\ moments[moment_id].participant_id = participant_id
    /\ moment_id \in DOMAIN session_turns_json

\* _get_moment_for_recall: found FALSE stands for None; summary NoText for a
\* summary of None.
_get_moment_for_recall(participant_id, moment_id) ==
    LET Keep(t) == t.role \in {Role.user, Role.assistant} /\ t.content # NoText
    IN IF ~RecallQuery(moment_id, participant_id)
       THEN [ found |-> FALSE, turns |-> <<>>, summary |-> NoText ]
       ELSE [ found |-> TRUE,
              turns |-> SelectSeq(session_turns_json[moment_id], Keep),
              summary |-> Strip(moments[moment_id].summary) ]

\* _mint_token_impl, lines 205-291, for a request without story_id and with
\* a key configured: what is added to the instructions.  block is
\* "recalled" (the recalled conversation, with its summary unless that is the
\* default one), "context" (previous context) or "none".
_mint_token_impl(participant_id, moment_id) ==
    LET recalled_data == _get_moment_for_recall(participant_id, moment_id)
        summary == recalled_data.summary
        context_turns == _get_voice_context_turns(participant_id, MAX_CONTEXT_TURNS)
        previous ==
            IF context_turns # <<>>
            THEN [ block |-> "context", turns |-> context_turns, summary |-> NoText ]
            ELSE [ block |-> "none", turns |-> <<>>, summary |-> NoText ]
    IN IF participant_id = NoText \/ participant_id \notin DOMAIN participants
       THEN [ block |-> "none", turns |-> <<>>, summary |-> NoText ]
       ELSE IF moment_id # NoId
       THEN IF recalled_data.found
            THEN [ block |-> "recalled", turns |-> recalled_data.turns,
                   summary |->
                       IF summary # NoText
                          /\ Lower(summary) \notin
                                 {Lower(SessionRecorded), Lower(SessionRecordedNoDot)}
                       THEN summary ELSE NoText ]
            ELSE previous
       ELSE previous

-----------------------------------------------------------------------------
(* Recall labels: the summary and tags that list_voice_sessions derives     *)
(* from the stored turns of a session.                                       *)

MAX_SUMMARY_CHARS == 100
MIN_TOPIC_WORD_LEN == 4
MAX_TAGS == 6
SKIP_FIRST_N_WORDS == 3
MAX_NICETY_LEN == 25

TOPIC_STOPWORDS ==
    { <<"a">>, <<"a","n">>, <<"t","h","e">>, <<"a","n","d">>, <<"o","r">>,
      <<"b","u","t">>, <<"i","f">>, <<"t","h","e","n">>, <<"s","o">>,
      <<"i","t","s">>, <<"i","t","'","s">>, <<"t","o">>, <<"f","r","o","m">>,
      <<"i">>, <<"m","e">>, <<"m","y">>, <<"y","o","u">>,
      <<"y","o","u","r">>, <<"h","e">>, <<"s","h","e">>, <<"w","e">>,
      <<"t","h","e","y">>, <<"t","h","e","m">>, <<"u","s">>, <<"o","u","r">>,
      <<"h","i","s">>, <<"h","e","r">>, <<"i","s">>, <<"a","r","e">>,
      <<"w","a","s">>, <<"w","e","r","e">>, <<"b","e">>, <<"b","e","e","n">>,
      <<"b","e","i","n","g">>, <<"h","a","v","e">>, <<"h","a","s">>,
      <<"h","a","d">>, <<"d","o">>, <<"d","o","e","s">>, <<"d","i","d">>,
      <<"w","i","l","l">>, <<"w","o","u","l","d">>, <<"c","o","u","l","d">>,
      <<"s","h","o","u","l","d">>, <<"m","a","y">>, <<"m","i","g","h","t">>,
      <<"c","a","n">>, <<"j","u","s","t">>, <<"r","e","a","l","l","y">>,
      <<"v","e","r","y">>, <<"h","e","l","l","o">>, <<"h","i">>,
      <<"h","e","y">>, <<"y","e","s">>, <<"n","o">>, <<"o","k">>,
      <<"o","k","a","y">>, <<"w","e","l","l">>, <<"o","h">>, <<"a","h">>,
      <<"u","m">>, <<"u","h">>, <<"n","i","c","e">>, <<"g","o","o","d">>,
      <<"g","r","e","a","t">>, <<"l","o","v","e","l","y">>,
      <<"w","o","n","d","e","r","f","u","l">>, <<"h","e","a","r">>,
      <<"s","p","e","a","k">>, <<"t","a","l","k","i","n","g">>,
      <<"t","a","l","k">>, <<"o","l","d","e","r">>, <<"a","d","u","l","t">>,
      <<"t","o","d","a","y">>, <<"n","o","w">>, <<"h","e","r","e">>,
      <<"t","h","e","r","e">>, <<"t","h","i","s">>, <<"t","h","a","t">>,
      <<"t","h","e","s","e">>, <<"t","h","o","s","e">>, <<"w","h","a","t">>,
      <<"w","h","e","n">>, <<"w","h","e","r","e">>, <<"w","h","i","c","h">>,
      <<"w","h","o">>, <<"h","o","w">>, <<"w","h","y">>,
      <<"a","b","o","u","t">>, <<"w","i","t","h">>, <<"f","o","r">>,
      <<"n","o","t">>, <<"t","h","a","n","k">>, <<"t","h","a","n","k","s">>,
      <<"t","h","a","n","k","y","o","u">>, <<"g","o","n","n","a">>,
      <<"w","a","n","n","a">>, <<"g","o","t","t","a">>, <<"a","l","s","o">>,
      <<"m","o","r","e">>, <<"h","e","l","p">>, <<"l","i","k","e">>,
      <<"v","o","i","c","e">>, <<"f","e","e","l","i","n","g">>,
      <<"m","i","n","d">>, <<"d","o","i","n","g">>, <<"r","i","g","h","t">>,
      <<"w","h","a","t","s">>, <<"w","a","n","t">>, <<"t","h","i","n","k">>,
      <<"k","n","o","w">>, <<"g","e","t">>, <<"s","e","e">>,
      <<"c","o","m","e">>, <<"g","o">>, <<"s","a","y">>, <<"m","a","k","e">>,
      <<"t","a","k","e">>, <<"n","e","e","d">>, <<"t","r","y">>,
      <<"a","s","k">>, <<"t","e","l","l">>, <<"g","i","v","e">>,
      <<"w","o","r","k">>, <<"c","a","l","l">>, <<"f","i","n","d">>,
      <<"f","e","e","l">>, <<"s","e","e","m">>, <<"s","e","e","m","s">>,
      <<"t","h","i","n","g">>, <<"t","h","i","n","g","s">>, <<"w","a","y">>,
      <<"d","a","y">>, <<"y","o","u","r","e">>, <<"s","a","r","a","h">> }

NICETY_PREFIXES ==
    { <<"t","h","a","n","k"," ","y","o","u">>, <<"t","h","a","n","k","s">>,
      <<"t","h","a","n","k"," ","y","o","u",".">>,
      <<"t","h","a","n","k","s",".">>, <<"o","k">>, <<"o","k","a","y">>,
      <<"h","i"," ">>, <<"h","e","l","l","o"," ">>, <<"h","e","y"," ">>,
      <<"y","e","s",".">>, <<"n","o",".">>, <<"y","e","a","h">>,
      <<"y","e","p">>, <<"s","u","r","e",".">> }

\* s in ("thank you", "thanks", "ok", ...)
NICETY_WORDS ==
    { <<"t","h","a","n","k"," ","y","o","u">>, <<"t","h","a","n","k","s">>,
      <<"o","k">>, <<"o","k","a","y">>, <<"h","i">>, <<"h","e","l","l","o">>,
      <<"h","e","y">>, <<"y","e","s">>, <<"n","o">>, <<"y","e","a","h">>,
      <<"y","e","p">>, <<"s","u","r","e">> }

\* The character U+2026 that marks a cut summary.
Ellipsis == "\\u2026"

\* _normalize_content for a str: raw.strip()
_normalize_content(raw) == Strip(raw)

\* str.split(): the maximal runs of non-blank characters, in order.
Split(text) ==
    LET n == Len(text)
        starts == { i \in 1..n : text[i] # SP /\ (i = 1 \/ text[i - 1] = SP) }
        EndOf(i) == CHOOSE j \in i..n :
                        /\ \A k \in i..j : text[k] # SP
                        /\ (j = n \/ text[j + 1] = SP)
        Nth(k) == CHOOSE i \in starts : Cardinality({ j \in starts : j < i }) = k - 1
    IN [ k \in 1..Cardinality(starts) |-> SubSeq(text, Nth(k), EndOf(Nth(k))) ]

\* " ".join(messages)
RECURSIVE Join(_)
Join(messages) ==
    IF messages = <<>> THEN <<>>
    ELSE IF Len(messages) = 1 THEN Head(messages)
    ELSE Head(messages) \o <<SP>> \o Join(Tail(messages))

\* c.isalnum()
IsAlnum(c) ==
    \/ c \in Digits
    \/ \E i \in 1..26 : c = Letters.upper[i] \/ c = Letters.lower[i]

\* Mutant: the case of a word is kept.
CleanKeepCase(w) ==
    LET Kept(c) == IsAlnum(c) \/ c \in {"'", "-"} IN SelectSeq(w, Kept)

\* "".join(c for c in w if c.isalnum() or c in "'-").lower()
Clean(w) ==
    LET Kept(c) == IsAlnum(c) \/ c \in {"'", "-"} IN Lower(SelectSeq(w, Kept))

\* The loop of _topic_words_from_text; seen holds what tags holds.
RECURSIVE TopicLoop(_, _, _)
TopicLoop(words, tags, max_tags) ==
    IF words = <<>> \/ Len(tags) >= max_tags THEN tags
    ELSE LET clean == Clean(Head(words))
             seen == { tags[i] : i \in 1..Len(tags) }
         IN IF \/ Len(clean) < MIN_TOPIC_WORD_LEN
               \/ clean \in TOPIC_STOPWORDS
               \/ clean \in seen
            THEN TopicLoop(Tail(words), tags, max_tags)
            ELSE TopicLoop(Tail(words), Append(tags, clean), max_tags)

_topic_words_from_text(text, max_tags) ==
    LET words == Split(text)
        start == IF Len(words) < SKIP_FIRST_N_WORDS THEN Len(words)
                 ELSE SKIP_FIRST_N_WORDS
    IN IF Strip(text) = NoText THEN <<>>
       ELSE TopicLoop(SubSeq(words, start + 1, Len(words)), <<>>, max_tags)

\* s.startswith(prefix)
StartsWith(s, prefix) ==
    Len(prefix) <= Len(s) /\ SubSeq(s, 1, Len(prefix)) = prefix

_is_nicety_only(msg) ==
    LET s == Lower(Strip(msg))
    IN IF Len(s) > MAX_NICETY_LEN THEN FALSE
       ELSE \/ \E prefix \in NICETY_PREFIXES : StartsWith(s, prefix)
            \/ s \in NICETY_WORDS

\* Mutant: turns of every role count as the participant's.
AnyRole(role) == TRUE

\* role in ("user", "assistant", "human") and then role in ("user", "human")
ParticipantRole(role) ==
    /\ role \in {Role.user, Role.assistant, Role.human}
    /\ role \in {Role.user, Role.human}

\* max(user_messages, key=len): the first of the longest messages.
Longest(user_messages) ==
    user_messages[CHOOSE i \in 1..Len(user_messages) :
        /\ \A j \in 1..Len(user_messages) : Len(user_messages[j]) <= Len(user_messages[i])
        /\ \A j \in 1..(i - 1) : Len(user_messages[j]) < Len(user_messages[i])]

\* Mutant: the summary is cut without a mark.
CutSilently(summary_msg) == Strip(Take(summary_msg, MAX_SUMMARY_CHARS))

\* summary_msg[:MAX_SUMMARY_CHARS].strip() + ("…" if len(summary_msg) > ... else "")
CutSummary(summary_msg) ==
    Strip(Take(summary_msg, MAX_SUMMARY_CHARS))
        \o (IF Len(summary_msg) > MAX_SUMMARY_CHARS THEN <<Ellipsis>> ELSE <<>>)

\* _derive_from_turns: summary NoText stands for None.
_derive_from_turns(turns_json) ==
    LET Said(t) == /\ ParticipantRole(Lower(Strip(t.role)))
                   /\ _normalize_content(t.content) # NoText
        said == SelectSeq(turns_json, Said)
        user_messages == [ i \in 1..Len(said) |-> _normalize_content(said[i].content) ]
        first_user == user_messages[1]
        rest == SubSeq(user_messages, 2, Len(user_messages))
        NotNicety(msg) == ~_is_nicety_only(msg)
        summary_msg ==
            IF ~_is_nicety_only(first_user) THEN first_user
            ELSE IF SelectSeq(rest, NotNicety) # <<>>
                 THEN Head(SelectSeq(rest, NotNicety))
            ELSE Longest(user_messages)
        combined == Join(user_messages)
    IN IF turns_json = <<>> \/ user_messages = <<>>
       THEN [ summary |-> NoText, tags |-> <<>> ]
       ELSE [ summary |-> CutSummary(summary_msg),
              tags |-> Take(_topic_words_from_text(combined, MAX_TAGS), MAX_TAGS) ]

\* The turns a session may carry.  mixed has an empty content, an
\* unrecognized role, a blank content and a role in capitals; long has more
\* valid turns than the rolling cap.  The others are conversations whose
\* labels are derived: thanks first; the same with other agent turns; agent
\* turns only; niceties only; a nicety by prefix; an utterance longer than
\* the cap; one of exactly the cap; repeated, short and stop words.
Conversations ==
    [ mixed |->
        << Turn(Role.user, <<"h","i">>), Turn(Role.assistant, NoText),
           Turn(Role.system, <<"s","y","s">>), Turn(Role.assistant, <<"y","o">>),
           Turn(Role.user, <<" ">>), Turn(<<"U","s","e","r">>, <<"u","p">>) >>,
      long |->
        <<
          Turn(Role.user, <<"x","0","1">>),
          Turn(Role.assistant, <<"x","0","2">>),
          Turn(Role.user, <<"x","0","3">>),
          Turn(Role.assistant, <<"x","0","4">>),
          Turn(Role.user, <<"x","0","5">>),
          Turn(Role.assistant, <<"x","0","6">>),
          Turn(Role.user, <<"x","0","7">>),
          Turn(Role.assistant, <<"x","0","8">>),
          Turn(Role.user, <<"x","0","9">>),
          Turn(Role.assistant, <<"x","1","0">>),
          Turn(Role.user, <<"x","1","1">>),
          Turn(Role.assistant, <<"x","1","2">>),
          Turn(Role.user, <<"x","1","3">>),
          Turn(Role.assistant, <<"x","1","4">>),
          Turn(Role.user, <<"x","1","5">>),
          Turn(Role.assistant, <<"x","1","6">>),
          Turn(Role.user, <<"x","1","7">>),
          Turn(Role.assistant, <<"x","1","8">>),
          Turn(Role.user, <<"x","1","9">>),
          Turn(Role.assistant, <<"x","2","0">>),
          Turn(Role.user, <<"x","2","1">>) >>,
      knee |->
        << Turn(Role.user,
                <<"T","h","a","n","k","s","!">>),
           Turn(Role.assistant,
                <<"Y","o","u"," ","a","r","e"," ","w","e","l","c","o","m","e">>),
           Turn(Role.user,
                <<"M","y"," ","k","n","e","e"," ","s","u","r","g","e","r","y"," ",
                "w","e","n","t"," ","w","e","l","l"," ","l","a","s","t"," ","w",
                "e","e","k">>) >>,
      edited |->
        << Turn(Role.assistant,
                <<"H","e","l","l","o",","," ","t","e","l","l"," ","m","e"," ","a",
                "b","o","u","t"," ","y","o","u","r"," ","g","a","r","d","e","n",
                " ","r","o","s","e","s">>),
           Turn(Role.user,
                <<"T","h","a","n","k","s","!">>),
           Turn(Role.user,
                <<"M","y"," ","k","n","e","e"," ","s","u","r","g","e","r","y"," ",
                "w","e","n","t"," ","w","e","l","l"," ","l","a","s","t"," ","w",
                "e","e","k">>),
           Turn(Role.assistant,
                <<"G","o","o","d">>) >>,
      agent |->
        << Turn(Role.assistant,
                <<"H","e","l","l","o"," ","t","h","e","r","e">>),
           Turn(Role.assistant,
                <<"T","e","l","l"," ","m","e"," ","a","b","o","u","t"," ","t","h",
                "e"," ","w","e","d","d","i","n","g">>) >>,
      nicety |->
        << Turn(Role.user,
                <<"h","i">>),
           Turn(<<" ","H","u","m","a","n"," ">>,
                <<"Y","e","a","h"," ","s","u","r","e">>),
           Turn(Role.user,
                <<"o","k","a","y"," ","t","h","e","n">>),
           Turn(Role.user,
                <<" "," ">>) >>,
      okra |->
        << Turn(Role.user,
                <<"O","k","r","a"," ","g","r","o","w","s"," ","f","a","s","t">>),
           Turn(Role.assistant,
                <<"I","t"," ","d","o","e","s">>),
           Turn(Role.user,
                <<"I"," ","p","l","a","n","t","e","d"," ","t","o","m","a","t","o",
                "e","s"," ","y","e","s","t","e","r","d","a","y">>) >>,
      longfirst |->
        << Turn(<<"U","S","E","R">>,
                <<"Y","e","s","t","e","r","d","a","y"," ","a","f","t","e","r","n",
                "o","o","n"," ","m","y"," ","g","r","a","n","d","d","a","u","g",
                "h","t","e","r"," ","E","m","i","l","y"," ","v","i","s","i","t",
                "e","d"," ","w","i","t","h"," ","h","e","r"," ","v","i","o","l",
                "i","n","s"," ","a","n","d"," ","p","l","a","y","e","d"," ","t",
                "h","e"," ","o","l","d"," ","l","u","l","l","a","b","y"," ","t",
                "h","a","t"," ","m","y"," ","m","o","t","h","e","r"," ","s","a",
                "n","g"," ","e","v","e","r","y"," ","e","v","e","n","i","n","g",
                " ","o","n"," ","t","h","e"," ","f","a","r","m">>),
           Turn(Role.user,
                <<"o","k">>) >>,
      exact |->
        << Turn(Role.user,
                <<"W","e"," ","d","r","o","v","e"," ","t","o"," ","t","h","e"," ",
                "l","a","k","e"," ","h","o","u","s","e"," ","i","n"," ","A","u",
                "g","u","s","t"," ","a","n","d"," ","s","t","a","y","e","d"," ",
                "t","w","o"," ","w","e","e","k","s"," ","w","i","t","h"," ","c",
                "o","u","s","i","n","s"," ","f","r","o","m"," ","O","n","t","a",
                "r","i","o"," ","a","n","d"," ","Q","u","e","b","e","c"," ","o",
                "k"," ","n","o">>) >>,
      garden |->
        << Turn(Role.human,
                <<"W","e","l","l"," ","I"," ","t","h","i","n","k"," ","G","a","r",
                "d","e","n"," ","g","a","r","d","e","n","!"," ","r","o","s","e",
                "s",","," ","R","O","S","E","S"," ","t","u","l","i","p","s"," ",
                "d","o","n","'","t">>),
           Turn(Role.assistant,
                <<"L","o","v","e","l","y"," ","f","l","o","w","e","r","s",","," ",
                "w","h","i","c","h"," ","o","n","e","s">>),
           Turn(Role.user,
                <<" ","m","o","t","h","e","r","-","i","n","-","l","a","w"," ","a",
                "b","o","u","t"," ","d","a","i","s","i","e","s"," ","o","r","c",
                "h","i","d","s"," ","l","i","l","i","e","s",","," ","v","i","o",
                "l","e","t","s"," ","p","e","o","n","i","e","s"," ","1","9","4",
                "7"," ">>) >> ]

\* The conversations whose labels are derived.
LabelTurns ==
    LET c == Conversations
    IN { c.knee, c.edited, c.agent, c.nicety, c.okra, c.longfirst, c.exact,
         c.garden }

-----------------------------------------------------------------------------
(* Requests of the session endpoints.                                        *)

\* The bodies of POST /sessions/complete for a participant: turns, summary
\* and the label service's answer.  The conversations whose labels are
\* derived are the first participant's.
SessionBodies(pid) ==
    { [ turns |-> Conversations.mixed, summary |-> NoText, ai |-> NoLabel ],
      [ turns |-> Conversations.mixed, summary |-> <<" ","k","n","e","e">>,
        ai |-> NoLabel ],
      [ turns |-> Conversations.long, summary |-> NoText,
        ai |-> [ summary |-> <<"A","I">>, tags |-> << <<"k","n","e","e">> >> ] ],
      [ turns |-> <<>>, summary |-> NoText, ai |-> NoLabel ] }
    \cup IF pid = P1
         THEN { [ turns |-> t, summary |-> NoText, ai |-> NoLabel ] : t \in LabelTurns }
         ELSE {}

SessionComplete ==
    /\ nextMoment <= 1 + MaxSessions
    /\ \E pid \in SqlPIds : \E body \in SessionBodies(pid) :
          LET r == session_complete(pid, body.turns, body.summary, body.ai)
          IN /\ Commit(r)
             /\ session_turns_json' = r.session_turns_json
    /\ UNCHANGED <<shareReq, listens, listenReq, enrollReq, createReq>>

NextRecall ==
    \/ SessionComplete
    \/ DeleteVoiceSession

SpecRecall == Init /\ [][NextRecall]_vars

-----------------------------------------------------------------------------
(* Properties of rolling context and targeted recall.                        *)

\* The sessions of a participant that have turns, soft-deleted ones included.
SessionsOf(pid) ==
    { m \in DOMAIN session_turns_json :
        moments[m].source = "older_session" /\ moments[m].participant_id = pid }
TurnAt(q) == session_turns_json[q[1]][q[2]]
\* A turn with a recognized role and a non-empty content.
ValidTurn(t) == t.role \in {Role.user, Role.assistant} /\ Len(t.content) > 0
\* The places <<session, index>> of the valid turns of a set of sessions.
ValidPlaces(ms) ==
    { q \in UNION { {m} \X (1..Len(session_turns_json[m])) : m \in ms } :
        ValidTurn(TurnAt(q)) }
\* Place a comes before place b: in an older session, or earlier in the same.
Earlier(a, b) ==
    \/ moments[a[1]].created_at < moments[b[1]].created_at
    \/ a[1] = b[1] /\ a[2] < b[2]
\* turns holds exactly the last n of the places, oldest first.
IsLastOf(turns, places, n) ==
    /\ Len(turns) = n
    /\ \A k \in 1..n :
          \E q \in places :
              /\ Cardinality({ x \in places : Earlier(q, x) }) = n - k
              /\ turns[k] = Turn(TurnAt(q).role, TurnAt(q).content)

\* C26: rolling context for a participant is the last 20 valid turns of the
\* participant's sessions taken oldest to newest, each session's turns in
\* recorded order; turns with another role or an empty content are skipped;
\* when fewer than 20 valid turns exist all are returned.  Both
\* implementations give this.
C26_RollingContextIsLastTurns ==
    \A pid \in ReqPIds :
        LET places == ValidPlaces(SessionsOf(pid))
            n == IF Cardinality(places) < 20 THEN Cardinality(places) ELSE 20
        IN /\ IsLastOf(get_voice_context(pid), places, n)
           /\ IsLastOf(_get_voice_context_turns(pid, MAX_CONTEXT_TURNS), places, n)

\* C26 witness: a participant has an older session with more valid turns
\* than the cap and a newer one with malformed entries; the context holds
\* the valid turns of the newer session after turns of the older one, and
\* not the oldest turns.
C26_Witness ==
    \E pid \in SqlPIds : \E old \in SessionsOf(pid), new \in SessionsOf(pid) :
        /\ moments[old].created_at < moments[new].created_at
        /\ session_turns_json[old] = Conversations.long
        /\ session_turns_json[new] = Conversations.mixed
        /\ Len(get_voice_context(pid)) = MAX_CONTEXT_TURNS
        /\ get_voice_context(pid)[1] = Conversations.long[5]
        /\ get_voice_context(pid)[MAX_CONTEXT_TURNS] = Conversations.mixed[5]

\* The moment ids a token request may carry: the sessions and an unknown id.
RecallMomentIds == 1..(2 + MaxSessions)
\* The session belongs to the participant.
OwnSession(pid, mid) ==
    /\ mid \in DOMAIN moments
    /\ moments[mid].source = "older_session"
    /\ moments[mid].participant_id = pid
\* turns holds exactly the valid turns of session mid, in recorded order.
IsAllOf(turns, mid) ==
    IF mid \in DOMAIN session_turns_json
    THEN IsLastOf(turns, ValidPlaces({mid}), Cardinality(ValidPlaces({mid})))
    ELSE turns = <<>>

\* C27 as claimed: targeted recall of a session of the participant returns
\* all its valid turns in order together with its stored summary, and
\* nothing when the session does not belong to the participant.
C27_AsClaimed ==
    \A pid \in ReqPIds, mid \in RecallMomentIds :
        LET d == _get_moment_for_recall(pid, mid)
        IN IF OwnSession(pid, mid)
           THEN /\ d.found
                /\ IsAllOf(d.turns, mid)
                /\ d.summary = Strip(moments[mid].summary)
           ELSE ~d.found

\* C27: targeted recall of a session of the participant that was stored
\* with turns returns all its valid turns in recorded order, however many,
\* and no other turn, together with the stored summary; the token request
\* passes these turns on as the recalled conversation.  For a session of
\* another participant, an unknown one, or one stored without turns it
\* returns nothing, and the token request falls back to the requester's own
\* rolling context.
C27_TargetedRecall ==
    \A pid \in ReqPIds, mid \in RecallMomentIds :
        LET d == _get_moment_for_recall(pid, mid)
            t == _mint_token_impl(pid, mid)
        IN IF OwnSession(pid, mid) /\ mid \in DOMAIN session_turns_json
           THEN /\ d.found
                /\ IsAllOf(d.turns, mid)
                /\ d.summary = Strip(moments[mid].summary)
                /\ t.block = "recalled" /\ t.turns = d.turns
                /\ t.summary \in {NoText, d.summary}
           ELSE /\ ~d.found /\ d.turns = <<>> /\ d.summary = NoText
                /\ t.block # "recalled"
                /\ t.turns = IF pid \in DOMAIN participants
                             THEN _get_voice_context_turns(pid, MAX_CONTEXT_TURNS)
                             ELSE <<>>

\* C27 witness: a participant recalls a session of more turns than the
\* rolling cap and gets them all, with its summary, while the rolling
\* context holds turns of a newer session too; the other participant gets
\* nothing of it.
C27_Witness ==
    \E mid \in SessionsOf(P1), new \in SessionsOf(P1) :
        /\ mid # new /\ session_turns_json[new] = Conversations.mixed
        /\ _get_moment_for_recall(P1, mid).found
        /\ _get_moment_for_recall(P1, mid).turns = Conversations.long
        /\ Len(Conversations.long) > MAX_CONTEXT_TURNS
        /\ _get_moment_for_recall(P1, mid).summary = <<"A","I">>
        /\ _mint_token_impl(P1, mid).turns = Conversations.long
        /\ ~_get_moment_for_recall(P2, mid).found
        /\ _mint_token_impl(P2, mid).block # "recalled"

-----------------------------------------------------------------------------
(* Properties of recall labels.                                              *)

\* The participant's utterances of a conversation, in order: the contents,
\* without surrounding blanks, of the turns of role user or human.
Utterances(turns) ==
    LET Said(t) == /\ Lower(Strip(t.role)) \in {Role.user, Role.human}
                   /\ Strip(t.content) # <<>>
        said == SelectSeq(turns, Said)
    IN [ i \in 1..Len(said) |-> Strip(said[i].content) ]
AgentTurn(t) == Lower(Strip(t.role)) = Role.assistant
\* The conversation with its agent turns removed, rewritten, and with agent
\* turns added.
AgentRemoved(turns) == LET Other(t) == ~AgentTurn(t) IN SelectSeq(turns, Other)
AgentRewritten(turns) ==
    [ i \in 1..Len(turns) |->
        IF AgentTurn(turns[i])
        THEN Turn(turns[i].role, <<"T","u","l","i","p","s"," ","b","l","o","o","m","e","d">>)
        ELSE turns[i] ]
AgentAdded(turns) ==
    << Turn(Role.assistant, <<"W","e","d","d","i","n","g"," ","c","a","k","e">>) >>
        \o turns \o << Turn(Role.assistant, <<"G","o","o","d","b","y","e">>) >>

\* C28: the label derived from a stored conversation is the same when its
\* agent turns are removed, rewritten or added to; two conversations with
\* the same participant utterances have the same label; a conversation with
\* agent turns only has no summary and no tags.
C28_LabelIgnoresAgentTurns ==
    /\ \A m \in DOMAIN session_turns_json :
          LET turns == session_turns_json[m]
              d == _derive_from_turns(turns)
          IN /\ d = _derive_from_turns(AgentRemoved(turns))
             /\ d = _derive_from_turns(AgentRewritten(turns))
             /\ d = _derive_from_turns(AgentAdded(turns))
             /\ (\A i \in 1..Len(turns) : AgentTurn(turns[i])) =>
                    d = [ summary |-> NoText, tags |-> <<>> ]
    /\ \A m \in DOMAIN session_turns_json, n \in DOMAIN session_turns_json :
          Utterances(session_turns_json[m]) = Utterances(session_turns_json[n]) =>
              _derive_from_turns(session_turns_json[m])
                  = _derive_from_turns(session_turns_json[n])

\* C28 witness: a conversation of agent turns only and one with agent and
\* participant turns are stored, and the second has a summary and tags.
C28_Witness ==
    \E m \in DOMAIN session_turns_json, n \in DOMAIN session_turns_json :
        /\ session_turns_json[m] = Conversations.agent
        /\ session_turns_json[n] = Conversations.edited
        /\ AgentRemoved(Conversations.edited) # Conversations.edited
        /\ _derive_from_turns(Conversations.edited).summary # NoText
        /\ _derive_from_turns(Conversations.edited).tags # <<>>
        /\ _derive_from_turns(Conversations.agent) = [ summary |-> NoText, tags |-> <<>> ]

\* The utterance the summary is taken from: the first that is not
\* nicety-only, or, when all are nicety-only, the first of the longest.
IsChosen(said, i) ==
    LET plain == { k \in 1..Len(said) : ~_is_nicety_only(said[k]) }
    IN IF plain # {}
       THEN i \in plain /\ \A k \in plain : i <= k
       ELSE /\ \A k \in 1..Len(said) : Len(said[k]) <= Len(said[i])
            /\ \A k \in 1..(i - 1) : Len(said[k]) < Len(said[i])

\* C29: the derived summary is the first participant utterance that is not
\* nicety-only, or the longest one when all are nicety-only; an utterance of
\* at most 100 characters is the summary as it is, a longer one is cut to
\* its first 100 characters (trailing blanks removed) followed by the
\* ellipsis mark; without participant utterances there is no summary.
C29_SummaryChoiceAndCut ==
    \A m \in DOMAIN session_turns_json :
        LET said == Utterances(session_turns_json[m])
            summary == _derive_from_turns(session_turns_json[m]).summary
        IN IF said = <<>> THEN summary = NoText
           ELSE \E i \in 1..Len(said) :
                   /\ IsChosen(said, i)
                   /\ IF Len(said[i]) <= 100 THEN summary = said[i]
                      ELSE /\ summary[Len(summary)] = Ellipsis
                           /\ Len(summary) <= 101
                           /\ SubSeq(summary, 1, Len(summary) - 1)
                                  = Strip(SubSeq(said[i], 1, 100))
                   /\ (Ellipsis \in { summary[k] : k \in 1..Len(summary) })
                          <=> Len(said[i]) > 100

\* C29 witness: the conversation "Thanks!" then "My knee surgery went well
\* last week" is stored and its summary is the second utterance; a stored
\* utterance longer than the cap is cut and marked; one of exactly 100
\* characters is not; of niceties only, the longest is taken.
C29_Witness ==
    /\ \E m \in DOMAIN session_turns_json, n \in DOMAIN session_turns_json :
          /\ session_turns_json[m] = Conversations.knee
          /\ session_turns_json[n] = Conversations.longfirst
    /\ _is_nicety_only(Conversations.knee[1].content)
    /\ _derive_from_turns(Conversations.knee).summary = Conversations.knee[3].content
    /\ Len(Conversations.longfirst[1].content) > MAX_SUMMARY_CHARS
    /\ Len(_derive_from_turns(Conversations.longfirst).summary) = MAX_SUMMARY_CHARS
    /\ _derive_from_turns(Conversations.longfirst).summary[MAX_SUMMARY_CHARS] = Ellipsis
    /\ Len(Conversations.exact[1].content) = MAX_SUMMARY_CHARS
    /\ _derive_from_turns(Conversations.exact).summary = Conversations.exact[1].content
    /\ _derive_from_turns(Conversations.nicety).summary = Conversations.nicety[2].content
    /\ _derive_from_turns(Conversations.okra).summary = Conversations.okra[3].content

\* The words of the joined utterances after the first three, each with only
\* its letters, digits, apostrophes and hyphens, in lower case.
TagWords(turns) ==
    LET words == Split(Join(Utterances(turns)))
        Kept(c) == IsAlnum(c) \/ c = "'" \/ c = "-"
    IN [ i \in 1..(IF Len(words) > 3 THEN Len(words) - 3 ELSE 0) |->
           Lower(SelectSeq(words[i + 3], Kept)) ]
\* The places of the words that may be tags: long enough, no stop word, and
\* not seen before.
TagPlaces(words) ==
    { i \in 1..Len(words) :
        /\ Len(words[i]) >= 4
        /\ words[i] \notin TOPIC_STOPWORDS
        /\ \A j \in 1..(i - 1) : words[j] # words[i] }

\* C30: the derived tags are the first 6 (or all, if fewer) of the words of
\* the joined participant utterances that come after the first 3 words,
\* have at least 4 characters, are no stop words and were not seen before
\* (compared in lower case), in first-seen order; every tag is in lower
\* case, has at least 4 characters, is no stop word and occurs once.
C30_TagsFromUtterances ==
    \A m \in DOMAIN session_turns_json :
        LET words == TagWords(session_turns_json[m])
            places == TagPlaces(words)
            tags == _derive_from_turns(session_turns_json[m]).tags
            n == IF Cardinality(places) < 6 THEN Cardinality(places) ELSE 6
        IN /\ Len(tags) = n
           /\ \A k \in 1..n :
                 \E i \in places :
                     /\ Cardinality({ j \in places : j < i }) = k - 1
                     /\ tags[k] = words[i]
           /\ \A k \in 1..Len(tags) :
                 /\ \A c \in 1..Len(tags[k]) :
                       \A u \in 1..26 : tags[k][c] # Letters.upper[u]
                 /\ Len(tags[k]) >= 4
                 /\ tags[k] \notin TOPIC_STOPWORDS
                 /\ \A j \in 1..Len(tags) : j # k => tags[j] # tags[k]

\* C30 witness: a stored conversation with more than 6 candidate words,
\* among them repeated words in other case, short words, stop words and
\* words with punctuation; its tags are the first six.
C30_Witness ==
    \E m \in DOMAIN session_turns_json :
        /\ session_turns_json[m] = Conversations.garden
        /\ Cardinality(TagPlaces(TagWords(Conversations.garden))) > MAX_TAGS
        /\ _derive_from_turns(Conversations.garden).tags =
               << <<"g","a","r","d","e","n">>,
                  <<"r","o","s","e","s">>,
                  <<"t","u","l","i","p","s">>,
                  <<"d","o","n","'","t">>,
                  <<"m","o","t","h","e","r","-","i","n","-","l","a","w">>,
                  <<"d","a","i","s","i","e","s">> >>

-----------------------------------------------------------------------------
(* The format of uploads.                                                    *)

\* What the decoder (to_wav_16k_mono with the declared content type) makes of
\* an upload is the environment's answer: every upload is taken with both.
Decoded(audio, converts) == [audio EXCEPT !.converts = converts]

\* The recognizer matches every profile on every frame.
AllMatch == [ j \in 1..2 |-> [ f \in 1..2 |-> 60 ] ]

\* C31: an upload with the RIFF/WAVE signature is used as it is, whatever the
\* decoder would make of it under its declared type; an upload without the
\* signature is used as decoded; and when it does not decode, an enroll or
\* identify request that got as far as the format is answered 400 (send WAV),
\* the backend is given nothing and no participant is changed.
C31_SignatureDecidesFormat ==
    /\ \A pid \in DOMAIN participants, a \in EnrollAudio, c \in BOOLEAN,
          installed \in BOOLEAN, raises \in BOOLEAN :
        LET audio == Decoded(a, c)
            r == enroll_participant_voice(pid, audio, <<"k">>, installed, raises)
            direct == enroll_participant(participants[pid], Wav(audio), <<"k">>,
                                         installed, raises)
        IN ~audio.too_short =>
             IF audio.riff \/ c
             THEN /\ r.code = 200
                  /\ r.result = direct
                  /\ r.participants = [participants EXCEPT ![pid] = direct.participant]
             ELSE /\ r.code = 400
                  /\ r.participants = participants
                  /\ r.result.fed = <<>> /\ r.result.buffer = <<>>
    /\ \A a \in IdentifyAudio, c \in BOOLEAN, order \in RowOrders,
          frame_len \in FrameLengths :
        LET audio == Decoded(a, c)
            r == voice_identify(audio, <<"k">>, TRUE, order, frame_len, AllMatch)
        IN ~audio.too_short =>
             IF audio.riff
             THEN /\ r.code = 200
                  /\ r = voice_identify(Decoded(a, ~c), <<"k">>, TRUE, order,
                                        frame_len, AllMatch)
             ELSE IF c THEN r.code = 200
             ELSE r = IdentifyOut(400, FALSE, NoText)

\* An enrolled participant; an upload with the signature that does not decode
\* is enrolled and recognized, and one without it that does not decode is
\* refused by both endpoints.
C31_Witness ==
    /\ Enrolled(P1)
    /\ \E a \in GoodAudio :
        /\ a.riff /\ ~a.converts
        /\ enroll_participant_voice(P1, a, <<"k">>, TRUE, FALSE).code = 200
        /\ enroll_participant_voice(P1, a, <<"k">>, TRUE, FALSE).participants
               # participants
    /\ \E a \in BadAudio :
        /\ ~a.riff /\ ~a.converts /\ ~a.too_short
        /\ enroll_participant_voice(P1, a, <<"k">>, TRUE, FALSE).code = 400
    /\ \E a \in IdentifyAudio :
        /\ a.riff /\ ~a.converts
        /\ voice_identify(a, <<"k">>, TRUE, <<P1, P2>>, 512, AllMatch).recognized
    /\ \E a \in IdentifyAudio :
        /\ ~a.riff /\ ~a.converts /\ ~a.too_short
        /\ voice_identify(a, <<"k">>, TRUE, <<P1, P2>>, 512, AllMatch).code = 400

-----------------------------------------------------------------------------
(* The moments router (routers/moments.py) on the same table: PATCH          *)
(* /moments/{moment_id} finds a moment by id and family alone.               *)

MaxCommentedLen == 3

\* PATCH /moments/{moment_id}: add_comment, title and summary of MomentPatch;
\* has_title and has_summary are `is not None`.
patch_moment(moment_id, add_comment, has_title, title, has_summary, summary) ==
    LET moment == moments[moment_id]
        comment == Strip(add_comment)
        existing == Strip(moment.summary)
        commented ==
            IF comment = NoText THEN moment.summary
            ELSE IF existing # NoText THEN existing \o <<"\n", "\n">> \o comment
            ELSE comment
        patched == [ moment EXCEPT
                       !.title = IF has_title THEN title ELSE @,
                       !.summary = IF has_summary THEN summary ELSE commented ]
    IN IF moment_id \notin DOMAIN moments THEN Same(404)
       ELSE [ Same(200) EXCEPT !.id = moment_id,
                !.moments = [moments EXCEPT ![moment_id] = patched] ]

Comments == {NoText, <<"c">>}

PatchMoment ==
    /\ \E mid \in MomentIds, comment \in Comments, ht \in BOOLEAN, hs \in BOOLEAN :
          /\ mid \in DOMAIN moments => Len(moments[mid].summary) <= MaxCommentedLen
          /\ Commit(patch_moment(mid, comment, ht, PatchTitle, hs, PatchSummary))
    /\ UNCHANGED others

NextMoments ==
    \/ PlainConfirmStory
    \/ DeleteVoiceStory
    \/ ShareVoiceStory
    \/ PatchMoment

SpecMoments == Init /\ [][NextMoments]_vars

\* C32: a shared record that is not deleted keeps its title, summary and tags
\* in every step.
C32_SharedRecordImmutable ==
    [][\A m \in SharedRecords :
          ~moments[m].deleted_at =>
              /\ m \in DOMAIN moments'
              /\ moments'[m].title = moments[m].title
              /\ moments'[m].summary = moments[m].summary
              /\ moments'[m].tags_json = moments[m].tags_json]_vars

-----------------------------------------------------------------------------
(* Deleted sessions.                                                         *)

\* Mutant: the deleted marker is not looked at.
SessionListQueryWithDeleted(id, participant_id) ==
    /\ moments[id].source = "older_session"
    /\ moments[id].participant_id = participant_id

\* The filter of list_voice_sessions.
SessionListQuery(id, participant_id) ==
    /\ moments[id].source = "older_session"
    /\ moments[id].participant_id = participant_id
    /\ ~moments[id].deleted_at

\* GET /voice/sessions: the ids of the rows returned, in order.
list_voice_sessions(participant_id, limit) ==
    LET rows == { id \in DOMAIN moments : SessionListQuery(id, participant_id) }
    IN Take(NewestFirst(moments, rows), limit)

DeletedSessions ==
    { m \in DOMAIN moments : moments[m].source = "older_session" /\ moments[m].deleted_at }

\* What a delete request answers and does: it marks one undeleted session of
\* the participant and touches nothing else, or it changes nothing.
DeleteMarksOnly(mid, pid) ==
    LET r == delete_voice_session(mid, pid)
    IN IF r.code = 200
       THEN /\ mid \in DOMAIN moments /\ ~moments[mid].deleted_at
            /\ moments[mid].participant_id = pid
            /\ DOMAIN r.moments = DOMAIN moments
            /\ r.moments[mid] = [moments[mid] EXCEPT !.deleted_at = TRUE]
            /\ \A m \in DOMAIN moments \ {mid} : r.moments[m] = moments[m]
            /\ r.participants = participants /\ r.stories = stories
       ELSE NoChange(r)

\* A deleted session is listed to nobody and no draft is made from it.
DeletedIsGone(m) ==
    \A pid \in ReqPIds :
        /\ \A limit \in Limits :
               \A i \in 1..Len(list_voice_sessions(pid, limit)) :
                   list_voice_sessions(pid, limit)[i] # m
        /\ create_voice_story(m, pid).code = 404
        /\ NoChange(create_voice_story(m, pid))

\* No step removes a record, its turns or a deleted marker.
NothingRemoved ==
    /\ DOMAIN moments \subseteq DOMAIN moments'
    /\ \A m \in DOMAIN session_turns_json :
           m \in DOMAIN session_turns_json'
           /\ session_turns_json'[m] = session_turns_json[m]
    /\ \A m \in DOMAIN moments :
           /\ moments[m].deleted_at => moments'[m].deleted_at
           /\ [moments'[m] EXCEPT !.deleted_at = FALSE]
                  = [moments[m] EXCEPT !.deleted_at = FALSE]

\* C33 as claimed: the same, and deleting a deleted session is answered 409.
C33_AsClaimed ==
    \A m \in DeletedSessions, pid \in ReqPIds :
        /\ DeletedIsGone(m)
        /\ delete_voice_session(m, pid).code = 409
        /\ NoChange(delete_voice_session(m, pid))

\* C33: delete_voice_session only sets the deleted marker of one session and
\* no step removes a record; a deleted session is absent from
\* list_voice_sessions and no draft is made from it; deleting it again is
\* answered 404 (not found or already removed) and changes nothing.
C33_SessionsSoftDeleted ==
    /\ [](/\ \A mid \in RecallMomentIds, pid \in ReqPIds : DeleteMarksOnly(mid, pid)
          /\ \A m \in DeletedSessions, pid \in ReqPIds :
                /\ DeletedIsGone(m)
                /\ delete_voice_session(m, pid).code = 404
                /\ NoChange(delete_voice_session(m, pid)))
    /\ [][NothingRemoved]_vars

\* A participant with a deleted session that has turns and a listed one.
C33_Witness ==
    \E m \in DeletedSessions :
        /\ m \in DOMAIN session_turns_json
        /\ \E n \in DOMAIN moments :
              /\ ~moments[n].deleted_at
              /\ moments[n].participant_id = moments[m].participant_id
              /\ list_voice_sessions(moments[m].participant_id, 50) = <<n>>
        /\ delete_voice_session(m, moments[m].participant_id).code = 404

-----------------------------------------------------------------------------
(* Interleaved create-participant requests.  voice_participants has no       *)
(* unique constraint on (family_id, label) (models.py 118-131, migration     *)
(* 002).  A request for the placeholder label first runs its query, and      *)
(* later returns the row found or adds a row and commits; other requests,    *)
(* each in its own session, may run in between.  The family starts with the  *)
(* participants of Init, none of them labelled 'New User', as in a schema    *)
(* made by init_db (db/session.py 31-32); migration 002 would seed one.      *)

MaxCreateReqs == 3

NEW_USER_LABEL == <<"N","e","w"," ","U","s","e","r">>

\* uuid7_str(): an id no row has; created_at = now.
NewParticipantId ==
    <<"n", <<"1","2","3","4","5","6","7","8","9">>[Cardinality(DOMAIN participants)]>>

\* Lines 258-266: the oldest participant labelled 'New User', or NoText.
NewUserQuery ==
    LET rows == { p \in DOMAIN participants : participants[p].label = NEW_USER_LABEL }
    IN IF rows = {} THEN NoText
       ELSE CHOOSE p \in rows :
                \A q \in rows : participants[p].created_at <= participants[q].created_at

\* (body.label or "").strip() or "Unknown"
LabelOf(raw) ==
    IF Strip(raw) # NoText THEN Strip(raw) ELSE <<"U","n","k","n","o","w","n">>

\* POST /voice/participants, after its query answered existing (NoText for
\* no row, and when the query is not run): the id returned and the table.
create_participant(raw, existing) ==
    LET label == LabelOf(raw)
        row == [ ParticipantRow EXCEPT
                   !.label = label,
                   !.created_at = Cardinality(DOMAIN participants) ]
    IN IF label = NEW_USER_LABEL /\ existing # NoText
       THEN [ code |-> 200, id |-> existing, participants |-> participants ]
       ELSE [ code |-> 200, id |-> NewParticipantId,
              participants |-> participants @@ (NewParticipantId :> row) ]

CreateLabels == {NEW_USER_LABEL, <<" ">> \o NEW_USER_LABEL, <<"A">>, NoText}

CreateBegin ==
    /\ Len(createReq) < MaxCreateReqs
    /\ \E raw \in CreateLabels :
          createReq' = Append(createReq,
              [ pc |-> "queried", label |-> raw, id |-> NoText,
                existing |-> IF LabelOf(raw) = NEW_USER_LABEL
                             THEN NewUserQuery ELSE NoText ])
    /\ UNCHANGED <<participants, moments, stories, nextMoment, nextStory>>
    /\ UNCHANGED <<shareReq, listens, listenReq, enrollReq, session_turns_json>>

CreateCommit ==
    /\ \E i \in 1..Len(createReq) :
          LET req == createReq[i]
              r == create_participant(req.label, req.existing)
          IN /\ req.pc = "queried"
             /\ participants' = r.participants
             /\ createReq' = [createReq EXCEPT ![i].pc = "done", ![i].id = r.id]
    /\ UNCHANGED <<moments, stories, nextMoment, nextStory>>
    /\ UNCHANGED <<shareReq, listens, listenReq, enrollReq, session_turns_json>>

NextCreate ==
    \/ CreateBegin
    \/ CreateCommit

SpecCreate == Init /\ [][NextCreate]_vars

\* C34: at most one participant is labelled 'New User', and the requests for
\* that label that have been answered were all given the same id.
C34_NoDuplicateNewUser ==
    /\ Cardinality({ p \in DOMAIN participants :
                       participants[p].label = NEW_USER_LABEL }) <= 1
    /\ \A i, j \in 1..Len(createReq) :
           ( /\ createReq[i].pc = "done" /\ createReq[j].pc = "done"
             /\ LabelOf(createReq[i].label) = NEW_USER_LABEL
             /\ LabelOf(createReq[j].label) = NEW_USER_LABEL )
           => createReq[i].id = createReq[j].id

-----------------------------------------------------------------------------
(* Profiles that do not deserialize.                                         *)

\* The candidates given to identify_single_speaker: the participants in the
\* given order, each with its stored profile, or with bytes that
\* EagleProfile.from_bytes rejects (<<>>) where readable says so.
Candidates(order, readable) ==
    [ i \in 1..Len(order) |->
        [ id |-> order[i],
          blob |-> IF readable[i] THEN Profile(order[i]) ELSE <<>> ] ]

\* The place among the profiles loaded of candidate i, itself loaded.
ProfileIndex(cands, i) == Cardinality({ k \in 1..i : FromBytes(cands[k]) })

\* C35: among participants that all have a stored profile, the id returned
\* is that of a candidate whose profile was loaded and whose own mean score
\* is the greatest of those of the profiles loaded.
C35_BestIndexIsItsParticipant ==
    \A order \in RowOrders, readable \in [1..2 -> BOOLEAN],
       frame_len \in FrameLengths, scores \in ScoreTables :
        LET cands == Candidates(order, readable)
            out == identify_single_speaker(cands, 1025, <<"k">>, TRUE,
                                           frame_len, scores)
            frames == FrameCount(1025, frame_len)
            Mean(i) == MeanScore(SubSeq(scores[ProfileIndex(cands, i)], 1, frames))
        IN (out # NoText /\ \A i \in 1..Len(order) : HasProfile(order[i])) =>
             \E i \in 1..Len(cands) :
                /\ cands[i].id = out
                /\ FromBytes(cands[i])
                /\ \A j \in 1..Len(cands) :
                       FromBytes(cands[j]) => ~MeanLess(Mean(i), Mean(j))

-----------------------------------------------------------------------------
(* Stories and their shared records.                                         *)

\* The asset ids a story's narration may have: none, or an asset.
NarrationAssets == {NoId, 7}

\* C36: a story is shared exactly when its shared_moment_id is set; the
\* record it refers to exists, has source voice_story, a shared_at, the
\* story's participant as author and the story's narration asset as its
\* session_audio link (none when the story has none); no two stories refer to
\* the same record; and the record share_voice_story builds is linked to the
\* narration asset exactly when the story has one.
C36_SharedIffRecord ==
    /\ \A sid \in DOMAIN stories :
          /\ Shared(sid) <=> stories[sid].shared_moment_id # NoId
          /\ Shared(sid) =>
                LET m == stories[sid].shared_moment_id
                IN /\ m \in DOMAIN moments
                   /\ moments[m].source = "voice_story"
                   /\ moments[m].shared_at
                   /\ moments[m].participant_id = stories[sid].participant_id
                   /\ moments[m].session_audio = stories[sid].final_audio_asset_id
          /\ \A asset \in NarrationAssets, ai \in AiTitles :
                SharedMomentRow([stories[sid] EXCEPT !.final_audio_asset_id = asset],
                                ai, nextMoment).session_audio = asset
    /\ \A s1, s2 \in DOMAIN stories :
          (Shared(s1) /\ Shared(s2)
              /\ stories[s1].shared_moment_id = stories[s2].shared_moment_id)
          => s1 = s2

\* A shared story with its record beside a story of the same participant that
\* is not shared.
C36_Witness ==
    /\ \E s1, s2 \in DOMAIN stories :
          /\ Shared(s1) /\ ~Shared(s2)
          /\ stories[s1].shared_moment_id \in SharedRecords
          /\ stories[s2].shared_moment_id = NoId
          /\ stories[s1].participant_id = stories[s2].participant_id
    /\ \E m \in SharedRecords : ~moments[m].deleted_at

-----------------------------------------------------------------------------
(* Shared stories given to the voice agent (routers/realtime.py).            *)

AgentStoryLimit == 15

\* _get_shared_stories_for_agent(db, participant_id, limit): the rows
\* returned, in order; has_listened FALSE stands for listened = None.
_get_shared_stories_for_agent(participant_id, limit) ==
    LET rows == { m \in DOMAIN moments : moments[m].source = "voice_story" }
        window == Take(NewestFirst(moments, rows), limit)
        Title(m) ==
            IF Strip(m.title) # NoText THEN Strip(m.title)
            ELSE IF Take(Strip(m.summary), 60) # NoText THEN Take(Strip(m.summary), 60)
            ELSE <<"S","t","o","r","y">>
        Name(m) ==
            IF m.participant_id \in DOMAIN participants
                  /\ Strip(participants[m.participant_id].label) # NoText
            THEN Strip(participants[m.participant_id].label)
            ELSE <<"S","o","m","e","o","n","e">>
    IN [ i \in 1..Len(window) |->
           [ moment_id |-> window[i],
             title |-> Title(moments[window[i]]),
             participant_name |-> Name(moments[window[i]]),
             has_audio |-> moments[window[i]].session_audio # NoId,
             has_listened |-> participant_id # NoText,
             listened |-> /\ participant_id # NoText
                          /\ BagIn(ListenRow(participant_id, window[i]), listens) ] ]

\* _mint_token_impl, lines 296-299: the playable stories and, of them, those
\* the participant has not listened to.
PlayableStories(participant_id) ==
    LET HasAudio(s) == s.has_audio
        New(s) == s.has_listened /\ ~s.listened
        playable == SelectSeq(_get_shared_stories_for_agent(participant_id,
                                                            AgentStoryLimit), HasAudio)
    IN [ playable |-> playable, new_stories |-> SelectSeq(playable, New) ]

DeletedShared == { m \in SharedRecords : moments[m].deleted_at }

\* C37: a shared story that was deleted is in no listing of shared stories,
\* neither that of list_shared_stories nor that given to the voice agent, and
\* a request to delete it again fails and changes nothing.
C37_DeletedSharedNeverListed ==
    \A m \in DeletedShared, pid \in SqlPIds \cup {NoText} :
        /\ \A new_only \in BOOLEAN, limit \in ListenLimits :
              \A i \in 1..Len(list_shared_stories(pid, new_only, limit)) :
                  list_shared_stories(pid, new_only, limit)[i].id # m
        /\ \A i \in 1..Len(_get_shared_stories_for_agent(pid, AgentStoryLimit)) :
              _get_shared_stories_for_agent(pid, AgentStoryLimit)[i].moment_id # m
        /\ \A i \in 1..Len(PlayableStories(pid).playable) :
              PlayableStories(pid).playable[i].moment_id # m
        /\ \A code \in ReqCodes :
              /\ _delete_shared_story_impl(m, pid, code).code # 200
              /\ NoChange(_delete_shared_story_impl(m, pid, code))

-----------------------------------------------------------------------------
(* Deleted sessions and what is recalled.                                    *)

\* The sessions of a participant that have turns and are not deleted.
LiveSessionsOf(pid) == { m \in SessionsOf(pid) : ~moments[m].deleted_at }

\* C38: rolling context is made of the turns of the participant's sessions
\* that are not deleted, and targeted recall of a deleted session finds
\* nothing: the token request falls back to that rolling context.
C38_DeletedSessionNotRecalled ==
    \A pid \in SqlPIds :
        LET places == ValidPlaces(LiveSessionsOf(pid))
            n == IF Cardinality(places) < 20 THEN Cardinality(places) ELSE 20
        IN /\ IsLastOf(get_voice_context(pid), places, n)
           /\ IsLastOf(_get_voice_context_turns(pid, MAX_CONTEXT_TURNS), places, n)
           /\ \A m \in DeletedSessions :
                 /\ ~_get_moment_for_recall(pid, m).found
                 /\ _mint_token_impl(pid, m).block # "recalled"

-----------------------------------------------------------------------------
(* The two rolling contexts.                                                 *)

\* Entries of a stored list: a turn as session_complete writes it, entries
\* with a missing key, an unrecognized role and an empty content, and entries
\* whose content or role is null or a number.
RawEntries ==
    { Turn(Role.user, <<"h","i">>), Turn(Role.assistant, <<"y","o">>),
      [ role |-> Role.user ], [ content |-> <<"h","i">> ],
      Turn(Role.system, <<"h","i">>), Turn(Role.user, NoText),
      Turn(Role.user, Json.null), Turn(Role.assistant, Json.zero),
      Turn(Json.null, <<"h","i">>) }

\* The stored lists of at most two entries.
RawLists == {<<>>} \cup { <<a>> : a \in RawEntries } \cup { <<a, b>> : a, b \in RawEntries }

-----------------------------------------------------------------------------
(* The remaining-speech estimate.                                            *)

\* The target of 15 s at 16 kHz, in samples.
TargetSamples == 15 * 16000

\* Samples of speech longer than any clip of EnrollAudio: just under the
\* target, the target, just over it and twice the target.
LongSpeech == {TargetSamples - 4, TargetSamples, TargetSamples + 1, 2 * TargetSamples}

\* The samples accumulated for p when a clip of n samples is added.
Accumulated(p, n) == Len(Unpack(Pending(p))) + n

\* An enroll call that reached the profiler and did not reach 100%.
StillEnrolling(r) == r.ok /\ r.message # "Enrolled"

\* C40: an incomplete enroll call reports the target of 15 s less the
\* accumulated duration and never less than zero (in samples: 240000 less
\* the accumulated samples, floored at zero, also for buffers at and beyond
\* the target); of two successive incomplete calls of one participant the
\* second reports no more than the first; the call that reaches Enrolled
\* reports none, and so does a call that fails.
C40_RemainingEstimate ==
    \A p \in DOMAIN participants, a1 \in GoodAudio, a2 \in GoodAudio :
        LET r1 == FirstCall(p, a1)
            r2 == SecondCall(p, a1, a2)
            n1 == Accumulated(p, Len(wav_to_pcm(Wav(a1))))
        IN /\ StillEnrolling(r1) =>
                 /\ r1.has_remaining
                 /\ r1.remaining = TargetSamples - n1
                 /\ r1.remaining >= 0
                 /\ Reaches(p, a1).result = r1
           /\ StillEnrolling(r1) /\ StillEnrolling(r2) =>
                 /\ r2.has_remaining
                 /\ r2.remaining = TargetSamples - (n1 + Len(wav_to_pcm(Wav(a2))))
                 /\ r2.remaining <= r1.remaining
           /\ r1.message = "Enrolled" => ~r1.has_remaining
           /\ r2.message = "Enrolled" => ~r2.has_remaining
           /\ ~enroll_participant(participants[p], Wav(a1), <<"k">>, TRUE, TRUE).has_remaining
           /\ \A n \in LongSpeech :
                 LET acc == Accumulated(p, n)
                 IN /\ RemainingSamples(acc) >= 0
                    /\ RemainingSamples(acc) =
                           (IF acc >= TargetSamples THEN 0 ELSE TargetSamples - acc)
                    /\ RemainingSamples(acc) <= RemainingSamples(Accumulated(p, 0))

\* C40 witness: the first participant is Enrolling with one sample pending;
\* a call with one more sample is incomplete and reports one sample less, and
\* a call with three samples reaches Enrolled and reports none.
C40_Witness ==
    /\ participants[P1].enrollment_status = "Enrolling"
    /\ Pending(P1) = Pack(Clip1)
    /\ LET a1 == Audio(FALSE, TRUE, FALSE, Pack(Clip1))
           a3 == Audio(FALSE, TRUE, FALSE, Pack(Clip3) \o <<7>>)
       IN /\ StillEnrolling(FirstCall(P1, a1))
          /\ FirstCall(P1, a1).remaining = TargetSamples - 2
          /\ FirstCall(P1, a1).remaining < RemainingSamples(1)
          /\ FirstCall(P1, a3).message = "Enrolled"
          /\ ~FirstCall(P1, a3).has_remaining

=============================================================================
